---- MODULE Spec2Model ----
(***************************************************************************)
(* State-machine model of the NES emulator core: the PPU scanline/dot      *)
(* machine, its registers and its memories (src/src/ppu), the gamepad      *)
(* (src/src/joypad.rs), the bus that maps CPU addresses and clocks the PPU *)
(* (src/src/bus.rs), the CPU with its instructions and run loop            *)
(* (src/src/cpu.rs) and the opcode table (src/src/opcodes.rs).             *)
(*                                                                         *)
(* Objects are records (ppu, bus, cpu); every method is a pure operator    *)
(* from the object before the call to the object after it (plus the        *)
(* returned value), and every action applies the operators of one call.    *)
(* A Rust panic (panic!, todo!, expect) sets `panicked`; nothing runs      *)
(* afterwards.                                                             *)
(***************************************************************************)
EXTENDS Integers, Naturals, Sequences, FiniteSets, TLC

VARIABLES
    ppu,        \* NesPPU: the fields of the struct (arrays hold their non-zero cells)
    bus,        \* Bus: cycles, cpu_vram, prg_rom, joypad_1 (the PPU it owns is `ppu`)
    cpu,        \* CPU: reg_a, reg_x, reg_y, reg_sp, status, reg_pc
    run_state,  \* position of CPU::run_with_callback: "idle", "running", "returned"
    panicked,   \* TRUE once a panic has aborted the program
    op,         \* the last operation performed: its name, argument and returned value
    hist        \* history counters kept for the properties (not program state)

vars == <<ppu, bus, cpu, run_state, panicked, op, hist>>

----------------------------------------------------------------------------
(* Bounds of the model *)

\* PpuTick/BusTick stop once this many frames have completed.
MaxFrames == 1

\* Dot counts handed to NesPPU::tick (a u8): none, a third of the range, the maximum.
TickDots == {0, 85, 255}

\* Bytes written to the control register: generate-NMI clear / set.
ControlBytes == {0, 128}

----------------------------------------------------------------------------
(* Bytes and Option<u8> *)

Byte == 0..255

Bit(b, k) == (b \div (2 ^ k)) % 2 = 1

SetBit(b, k, v) ==
    IF v THEN (IF Bit(b, k) THEN b ELSE b + 2 ^ k)
         ELSE (IF Bit(b, k) THEN b - 2 ^ k ELSE b)

\* The value of an expression, named once: Only({f(x) : x \in {e}}) is f(e) with e
\* evaluated a single time.
Only(S) == CHOOSE x \in S : TRUE

None == <<>>
Some(x) == <<x>>
is_some(o) == o # None

----------------------------------------------------------------------------
(* ppu/control.rs: ControlRegister *)

VRAM_ADD_INCREMENT == 2
GENERATE_NMI == 7

ControlRegister_new == 0

vram_address_increment(control) == IF Bit(control, VRAM_ADD_INCREMENT) THEN 32 ELSE 1

generate_vblank_nmi(control) == Bit(control, GENERATE_NMI)

ControlRegister_update(control, data) == data

(* ppu/status.rs: StatusRegister. Modelled from its uses in ppu/mod.rs   *)
(* and the design text: a byte whose bit 7 is VBlank (test_reset_vblank    *)
(* reads bit 0x80 after set_vblank_status(true)).                           *)

VBLANK_STARTED == 7

StatusRegister_new == 0

set_vblank_status(status, v) == SetBit(status, VBLANK_STARTED, v)

is_in_vblank(status) == Bit(status, VBLANK_STARTED)

StatusRegister_read(status) == status

----------------------------------------------------------------------------
(* ppu/address.rs: AddressRegister, value = <<hi, lo>> *)

AddressRegister_new == [value |-> <<0, 0>>, is_hi |-> TRUE]

AddressRegister_get(a) == a.value[1] * 256 + a.value[2]

AddressRegister_set(a, data) ==
    [a EXCEPT !.value = <<(data \div 256) % 256, data % 256>>]

\* data & 0x3fff
Mask14(data) == data % 16384

AddressRegister_update(a, data) ==
    LET a1 == IF a.is_hi THEN [a EXCEPT !.value[1] = data]
                         ELSE [a EXCEPT !.value[2] = data]
        a2 == IF AddressRegister_get(a1) > 16383
              THEN AddressRegister_set(a1, Mask14(AddressRegister_get(a1)))
              ELSE a1
    IN  [a2 EXCEPT !.is_hi = ~a.is_hi]

AddressRegister_reset(a) == [a EXCEPT !.is_hi = TRUE]

\* An increment that carries from lo into hi without the mask to 14 bits.
increment_no_mask(a, value) ==
    LET lo == a.value[2]
        lo1 == (lo + value) % 256
        hi1 == IF lo > lo1 THEN (a.value[1] + 1) % 256 ELSE a.value[1]
    IN  [a EXCEPT !.value = <<hi1, lo1>>]

\* AddressRegister::increment: wrapping add on lo, carry into hi, mask to 14 bits.
AddressRegister_increment(a, value) ==
    LET lo == a.value[2]
        lo1 == (lo + value) % 256
        hi1 == IF lo > lo1 THEN (a.value[1] + 1) % 256 ELSE a.value[1]
        a1 == [a EXCEPT !.value = <<hi1, lo1>>]
    IN  IF AddressRegister_get(a1) > 16383
        THEN AddressRegister_set(a1, Mask14(AddressRegister_get(a1)))
        ELSE a1

(* ppu/scroll.rs: ScrollRegister *)

ScrollRegister_new == [scroll_x |-> 0, scroll_y |-> 0, latch |-> FALSE]

ScrollRegister_update(s, data) ==
    LET s1 == IF s.latch THEN [s EXCEPT !.scroll_y = data]
                         ELSE [s EXCEPT !.scroll_x = data]
    IN  [s1 EXCEPT !.latch = ~s.latch]

ScrollRegister_reset(s) == [s EXCEPT !.latch = FALSE]

----------------------------------------------------------------------------
(* ppu/mod.rs: NesPPU *)

DotsPerScanline == 341
VBlankScanline == 241
ScanlinesPerFrame == 262

FrameDots == DotsPerScanline * ScanlinesPerFrame

\* rom.rs: enum Mirroring
Mirroring == {"VERTICAL", "HORIZONTAL", "FOUR_SCREEN"}

\* The PPU address map.
PPU_CHR_ROM == 0
PPU_CHR_ROM_END == 8191
PPU_VRAM == 8192
PPU_VRAM_1ST_END == 12287
PPU_VRAM_2ND == 12288
PPU_VRAM_END == 16127
PPU_PALETTE_TABLE == 16128
PPU_PALETTE_TABLE_END == 16383

\* Lengths of the arrays vram, palette_table and oam_data.
VramLen == 2048
PaletteLen == 32
OamLen == 256

\* The array cell i; an index outside the DOMAIN holds 0, the value the arrays are
\* created with.
Cell(mem, i) == IF i \in DOMAIN mem THEN mem[i] ELSE 0

Store(mem, i, v) == (i :> v) @@ mem

(* NesPPU::new. chr_rom is a Vec: its length and its non-zero bytes. *)
NesPPU_new_rom(chr_rom, mirroring) ==
    [ chr_rom              |-> chr_rom,
      palette_table        |-> <<>>,
      vram                 |-> <<>>,
      oam_address          |-> 0,
      oam_data             |-> <<>>,
      internal_data_buffer |-> 0,
      cycles               |-> 0,
      scanline             |-> 0,
      nmi_interrupt        |-> None,
      mirroring            |-> mirroring,
      address              |-> AddressRegister_new,
      control              |-> ControlRegister_new,
      status               |-> StatusRegister_new,
      scroll               |-> ScrollRegister_new,
      mask                 |-> 0 ]

\* NesPPU::new_empty_rom
NesPPU_new == NesPPU_new_rom([len |-> 2048, mem |-> <<>>], "HORIZONTAL")

increment_vram_address(p) ==
    [p EXCEPT !.address = AddressRegister_increment(p.address,
                                                    vram_address_increment(p.control))]

\* addr & 0x2fff, for a 14-bit addr: bit 12 cleared.
And2fff(addr) == (addr % 4096) + (IF Bit(addr, 13) THEN 8192 ELSE 0)

\* A mirroring table that leaves logical table 1 unfolded under HORIZONTAL.
mirror_table1_unfolded(mirroring, addr) ==
    LET index == And2fff(addr) - PPU_VRAM
        table == index \div 1024
    IN  CASE mirroring = "HORIZONTAL" /\ table = 2 -> index - 1024
          [] mirroring = "HORIZONTAL" /\ table = 3 -> index - 2048
          [] mirroring = "VERTICAL" /\ table = 2 -> index - 2048
          [] mirroring = "VERTICAL" /\ table = 3 -> index - 2048
          [] OTHER -> index

\* NesPPU::mirror_vram_address
mirror_vram_address(mirroring, addr) ==
    LET index == And2fff(addr) - PPU_VRAM
        table == index \div 1024
    IN  CASE mirroring = "HORIZONTAL" /\ table = 1 -> index - 1024
          [] mirroring = "HORIZONTAL" /\ table = 2 -> index - 1024
          [] mirroring = "HORIZONTAL" /\ table = 3 -> index - 2048
          [] mirroring = "VERTICAL" /\ table = 2 -> index - 2048
          [] mirroring = "VERTICAL" /\ table = 3 -> index - 2048
          [] OTHER -> index

\* A tick whose line comparison is > instead of >=.
tick_late_line(p, cycles) ==
    LET cy == p.cycles + cycles IN
    IF cy > DotsPerScanline
    THEN LET p1 == [p EXCEPT !.cycles = cy - DotsPerScanline, !.scanline = p.scanline + 1] IN
         IF p1.scanline = VBlankScanline /\ generate_vblank_nmi(p1.control)
         THEN [ppu |-> [p1 EXCEPT !.status = set_vblank_status(p1.status, TRUE)],
               ret |-> FALSE, panic |-> TRUE]
         ELSE IF p1.scanline >= ScanlinesPerFrame
         THEN [ppu |-> [p1 EXCEPT !.scanline = 0,
                                  !.status = set_vblank_status(p1.status, FALSE)],
               ret |-> TRUE, panic |-> FALSE]
         ELSE [ppu |-> p1, ret |-> FALSE, panic |-> FALSE]
    ELSE [ppu |-> [p EXCEPT !.cycles = cy], ret |-> FALSE, panic |-> FALSE]

\* A tick that ends the frame one scanline late (> 262 for >= 262).
tick_late_frame(p, cycles) ==
    LET cy == p.cycles + cycles IN
    IF cy >= DotsPerScanline
    THEN LET p1 == [p EXCEPT !.cycles = cy - DotsPerScanline, !.scanline = p.scanline + 1] IN
         IF p1.scanline = VBlankScanline /\ generate_vblank_nmi(p1.control)
         THEN [ppu |-> [p1 EXCEPT !.status = set_vblank_status(p1.status, TRUE)],
               ret |-> FALSE, panic |-> TRUE]
         ELSE IF p1.scanline > ScanlinesPerFrame
         THEN [ppu |-> [p1 EXCEPT !.scanline = 0,
                                  !.status = set_vblank_status(p1.status, FALSE)],
               ret |-> TRUE, panic |-> FALSE]
         ELSE [ppu |-> p1, ret |-> FALSE, panic |-> FALSE]
    ELSE [ppu |-> [p EXCEPT !.cycles = cy], ret |-> FALSE, panic |-> FALSE]

(* NesPPU::tick. At scanline 241 VBlank is set only under generate-NMI, and *)
(* the statement that follows is todo!(), which panics: the tick does not  *)
(* return and nmi_interrupt is never assigned.                              *)
tick(p, cycles) ==
    LET cy == p.cycles + cycles IN
    IF cy >= DotsPerScanline
    THEN LET p1 == [p EXCEPT !.cycles = cy - DotsPerScanline, !.scanline = p.scanline + 1] IN
         IF p1.scanline = VBlankScanline /\ generate_vblank_nmi(p1.control)
         THEN [ppu |-> [p1 EXCEPT !.status = set_vblank_status(p1.status, TRUE)],
               ret |-> FALSE, panic |-> TRUE]
         ELSE IF p1.scanline >= ScanlinesPerFrame
         THEN [ppu |-> [p1 EXCEPT !.scanline = 0,
                                  !.status = set_vblank_status(p1.status, FALSE)],
               ret |-> TRUE, panic |-> FALSE]
         ELSE [ppu |-> p1, ret |-> FALSE, panic |-> FALSE]
    ELSE [ppu |-> [p EXCEPT !.cycles = cy], ret |-> FALSE, panic |-> FALSE]

NesPPU_poll_nmi(p) ==
    [ppu |-> [p EXCEPT !.nmi_interrupt = None], ret |-> p.nmi_interrupt]

\* write_control without the test of the previous generate-NMI bit.
write_control_no_edge(p, data) ==
    LET p1 == [p EXCEPT !.control = ControlRegister_update(p.control, data)] IN
    IF generate_vblank_nmi(p1.control) /\ is_in_vblank(p1.status)
    THEN [p1 EXCEPT !.nmi_interrupt = Some(1)]
    ELSE p1

write_control(p, data) ==
    LET before_nmi_status == generate_vblank_nmi(p.control)
        p1 == [p EXCEPT !.control = ControlRegister_update(p.control, data)]
    IN  IF ~before_nmi_status /\ generate_vblank_nmi(p1.control) /\ is_in_vblank(p1.status)
        THEN [p1 EXCEPT !.nmi_interrupt = Some(1)]
        ELSE p1

\* read_status that leaves the VBlank bit as it was.
read_status_keep_vblank(p) ==
    [ppu |-> [p EXCEPT !.address = AddressRegister_reset(p.address),
                       !.scroll = ScrollRegister_reset(p.scroll)],
     ret |-> StatusRegister_read(p.status)]

\* read_status that does not reset the address latch.
read_status_keep_latch(p) ==
    [ppu |-> [p EXCEPT !.status = set_vblank_status(p.status, FALSE),
                       !.scroll = ScrollRegister_reset(p.scroll)],
     ret |-> StatusRegister_read(p.status)]

read_status(p) ==
    [ppu |-> [p EXCEPT !.status = set_vblank_status(p.status, FALSE),
                       !.address = AddressRegister_reset(p.address),
                       !.scroll = ScrollRegister_reset(p.scroll)],
     ret |-> StatusRegister_read(p.status)]

write_address(p, data) == [p EXCEPT !.address = AddressRegister_update(p.address, data)]

\* The palette cell of a palette address: 0x3f10/14/18/1c fold onto 0x3f00/04/08/0c,
\* every other address indexes the table with addr - 0x3f00.
palette_index(addr) ==
    IF addr \in {16144, 16148, 16152, 16156}
    THEN (addr - 16) - PPU_PALETTE_TABLE
    ELSE addr - PPU_PALETTE_TABLE

\* A read that returns the byte at the address instead of the buffered one.
read_data_unbuffered(p) ==
    LET addr == AddressRegister_get(p.address)
        p1 == increment_vram_address(p)
        v == IF addr <= PPU_CHR_ROM_END THEN Cell(p.chr_rom.mem, addr)
             ELSE IF addr <= PPU_VRAM_1ST_END
             THEN Cell(p.vram, mirror_vram_address(p.mirroring, addr))
             ELSE Cell(p.palette_table, palette_index(addr))
    IN  [ppu |-> [p1 EXCEPT !.internal_data_buffer = v], ret |-> v, panic |-> FALSE]

(* NesPPU::read_data: the address is read, then incremented, then matched. *)
(* An index past the end of chr_rom, vram or palette_table panics, as the   *)
(* 0x3000..0x3eff window does. The palette arms return the palette byte and *)
(* leave internal_data_buffer as it was.                                    *)
read_data(p) ==
    LET addr == AddressRegister_get(p.address)
        p1 == increment_vram_address(p)
    IN  IF addr >= PPU_CHR_ROM /\ addr <= PPU_CHR_ROM_END
        THEN IF addr < p.chr_rom.len
             THEN [ppu |-> [p1 EXCEPT !.internal_data_buffer = Cell(p.chr_rom.mem, addr)],
                   ret |-> p.internal_data_buffer, panic |-> FALSE]
             ELSE [ppu |-> p1, ret |-> 0, panic |-> TRUE]
        ELSE IF addr >= PPU_VRAM /\ addr <= PPU_VRAM_1ST_END
        THEN IF mirror_vram_address(p.mirroring, addr) < VramLen
             THEN [ppu |-> [p1 EXCEPT !.internal_data_buffer =
                                Cell(p.vram, mirror_vram_address(p.mirroring, addr))],
                   ret |-> p.internal_data_buffer, panic |-> FALSE]
             ELSE [ppu |-> p1, ret |-> 0, panic |-> TRUE]
        ELSE IF addr >= PPU_VRAM_2ND /\ addr <= PPU_VRAM_END
        THEN [ppu |-> p1, ret |-> 0, panic |-> TRUE]
        ELSE IF addr >= PPU_PALETTE_TABLE /\ addr <= PPU_PALETTE_TABLE_END
        THEN IF palette_index(addr) < PaletteLen
             THEN [ppu |-> p1, ret |-> Cell(p.palette_table, palette_index(addr)),
                   panic |-> FALSE]
             ELSE [ppu |-> p1, ret |-> 0, panic |-> TRUE]
        ELSE [ppu |-> p1, ret |-> 0, panic |-> TRUE]

(* NesPPU::write_data: the store, then the increment; a write to CHR-ROM is *)
(* reported and dropped; a panic comes before the increment.                *)
write_data(p, data) ==
    LET addr == AddressRegister_get(p.address) IN
    IF addr >= PPU_CHR_ROM /\ addr <= PPU_CHR_ROM_END
    THEN [ppu |-> increment_vram_address(p), panic |-> FALSE]
    ELSE IF addr >= PPU_VRAM /\ addr <= PPU_VRAM_1ST_END
    THEN IF mirror_vram_address(p.mirroring, addr) < VramLen
         THEN [ppu |-> increment_vram_address(
                         [p EXCEPT !.vram = Store(p.vram,
                                                  mirror_vram_address(p.mirroring, addr),
                                                  data)]),
               panic |-> FALSE]
         ELSE [ppu |-> p, panic |-> TRUE]
    ELSE IF addr >= PPU_VRAM_2ND /\ addr <= PPU_VRAM_END
    THEN [ppu |-> p, panic |-> TRUE]
    ELSE IF addr >= PPU_PALETTE_TABLE /\ addr <= PPU_PALETTE_TABLE_END
    THEN IF palette_index(addr) < PaletteLen
         THEN [ppu |-> increment_vram_address(
                         [p EXCEPT !.palette_table = Store(p.palette_table,
                                                           palette_index(addr), data)]),
               panic |-> FALSE]
         ELSE [ppu |-> p, panic |-> TRUE]
    ELSE [ppu |-> p, panic |-> TRUE]

write_mask(p, data) == [p EXCEPT !.mask = data]

write_oam_address(p, data) == [p EXCEPT !.oam_address = data]

write_oam_data(p, data) ==
    [p EXCEPT !.oam_data = Store(p.oam_data, p.oam_address, data),
              !.oam_address = (p.oam_address + 1) % 256]

read_oam_data(p) == Cell(p.oam_data, p.oam_address)

\* A DMA that fills OAM from cell 0 instead of from oam_address.
write_oam_dma_from_zero(p, data) ==
    [p EXCEPT !.oam_data = [j \in 0..(OamLen - 1) |-> data[j]]]

\* The iterations i .. i + n - 1 of the loop of write_oam_dma, in order (the first
\* half of the range, then the second half on the PPU the first one left).
RECURSIVE oam_dma_loop(_, _, _, _)
oam_dma_loop(p, data, i, n) ==
    IF n = 1
    THEN [p EXCEPT !.oam_data = Store(p.oam_data, p.oam_address, data[i]),
                   !.oam_address = (p.oam_address + 1) % 256]
    ELSE Only({ oam_dma_loop(p1, data, i + n \div 2, n \div 2)
                : p1 \in {oam_dma_loop(p, data, i, n \div 2)} })

\* NesPPU::write_oam_dma; data is the buffer, indexed 0..255.
write_oam_dma(p, data) == oam_dma_loop(p, data, 0, OamLen)

write_scroll(p, data) == [p EXCEPT !.scroll = ScrollRegister_update(p.scroll, data)]

----------------------------------------------------------------------------
(* joypad.rs: Joypad. status is the JoypadButton byte: bit 0 is BUTTON_A,   *)
(* bit 7 is RIGHT.                                                          *)

BUTTON_A == 0

Joypad_new == [strobe |-> FALSE, index |-> 0, status |-> 0]

Joypad_write(j, data) ==
    LET strobe == (data % 2) = 1 IN
    [j EXCEPT !.strobe = strobe, !.index = IF strobe THEN 0 ELSE j.index]

\* A read that starts over with button A after RIGHT.
Joypad_read_wraps(j) ==
    [joypad |-> IF ~j.strobe THEN [j EXCEPT !.index = (j.index + 1) % 8] ELSE j,
     ret |-> IF Bit(j.status, j.index) THEN 1 ELSE 0]

\* A read that shifts to the next button whatever the strobe is.
Joypad_read_always_shifts(j) ==
    IF j.index > 7
    THEN [joypad |-> j, ret |-> 1]
    ELSE [joypad |-> [j EXCEPT !.index = j.index + 1],
          ret |-> IF Bit(j.status, j.index) THEN 1 ELSE 0]

\* Joypad::read: (status & (1 << index)) >> index, then the shift unless strobing.
Joypad_read(j) ==
    IF j.index > 7
    THEN [joypad |-> j, ret |-> 1]
    ELSE [joypad |-> IF ~j.strobe /\ j.index <= 7
                     THEN [j EXCEPT !.index = j.index + 1]
                     ELSE j,
          ret |-> IF Bit(j.status, j.index) THEN 1 ELSE 0]

\* Joypad::set_status; button is the bit of the JoypadButton flag.
Joypad_set_status(j, button, pressed) ==
    [j EXCEPT !.status = SetBit(j.status, button, pressed)]

----------------------------------------------------------------------------
(* bus.rs: Bus. cpu_vram and prg_rom are kept as the PPU arrays are: an    *)
(* index outside the DOMAIN holds 0.                                        *)

RAM == 0
RAM_END == 8191
PPU_REG_CONTROLLER == 8192
PPU_REG_MASK == 8193
PPU_REG_STATUS == 8194
PPU_REG_OAM_ADDRESS == 8195
PPU_REG_OAM_DATA == 8196
PPU_REG_SCROLL == 8197
PPU_REG_ADDRESS == 8198
PPU_REG_DATA == 8199
PPU_REG_END == 8200
PPU_END == 16383
PPU_REG_OAM_DMA == 16404
APU == 16384
APU_END == 16405
JOYPAD_1 == 16406
JOYPAD_2 == 16407
ROM == 32768
ROM_END == 65535

PrgRomLen == 16384

\* A RAM index that keeps bit 11 of the address (addr & 0x0FFF).
RamIndex_keeps_bit11(addr) == addr % 4096

\* addr & 0x07FF
RamIndex(addr) == addr % 2048

\* addr & 0x2007, for addr in 0x2008..0x3FFF
PpuRegMirror(addr) == 8192 + (addr % 8)

\* (addr - 0x8000), & 0x3FFF when the PRG bank is 16 KiB
RomIndex(addr) == IF PrgRomLen = 16384 THEN (addr - ROM) % 16384 ELSE addr - ROM

Bus_new(prg) ==
    [cycles |-> 0, cpu_vram |-> <<>>, prg_rom |-> prg, joypad_1 |-> Joypad_new]

(* Bus::tick: ppu.tick(cycles * 3), then the vsync callback when the tick   *)
(* took the pending NMI from absent to present. `vsync` tells whether the  *)
(* callback ran. cycles * 3 is a u8 product: the actions pass cycles <= 85. *)
Bus_tick(b, p, cycles) ==
    Only({ [bus   |-> [b EXCEPT !.cycles = b.cycles + cycles],
            ppu   |-> r.ppu,
            panic |-> r.panic,
            vsync |-> ~r.panic /\ ~is_some(p.nmi_interrupt) /\ is_some(r.ppu.nmi_interrupt)]
           : r \in {tick(p, cycles * 3)} })

Bus_poll_nmi(p) == NesPPU_poll_nmi(p)

(* Memory for Bus. *)
RECURSIVE memory_read_u8(_, _, _)
memory_read_u8(b, p, addr) ==
    IF addr >= RAM /\ addr <= RAM_END
    THEN [bus |-> b, ppu |-> p, ret |-> Cell(b.cpu_vram, RamIndex(addr)), panic |-> FALSE]
    ELSE IF addr \in {PPU_REG_CONTROLLER, PPU_REG_MASK, PPU_REG_OAM_ADDRESS,
                      PPU_REG_SCROLL, PPU_REG_ADDRESS, PPU_REG_OAM_DMA}
    THEN [bus |-> b, ppu |-> p, ret |-> 0, panic |-> FALSE]
    ELSE IF addr = PPU_REG_STATUS
    THEN Only({ [bus |-> b, ppu |-> r.ppu, ret |-> r.ret, panic |-> FALSE]
                : r \in {read_status(p)} })
    ELSE IF addr = PPU_REG_OAM_DATA
    THEN [bus |-> b, ppu |-> p, ret |-> read_oam_data(p), panic |-> FALSE]
    ELSE IF addr = PPU_REG_DATA
    THEN Only({ [bus |-> b, ppu |-> r.ppu, ret |-> r.ret, panic |-> r.panic]
                : r \in {read_data(p)} })
    ELSE IF addr >= PPU_REG_END /\ addr <= PPU_END
    THEN memory_read_u8(b, p, PpuRegMirror(addr))
    ELSE IF addr >= APU /\ addr <= APU_END
    THEN [bus |-> b, ppu |-> p, ret |-> 0, panic |-> FALSE]
    ELSE IF addr = JOYPAD_1
    THEN Only({ [bus |-> [b EXCEPT !.joypad_1 = r.joypad], ppu |-> p, ret |-> r.ret,
                 panic |-> FALSE]
                : r \in {Joypad_read(b.joypad_1)} })
    ELSE IF addr = JOYPAD_2
    THEN [bus |-> b, ppu |-> p, ret |-> 0, panic |-> FALSE]
    ELSE IF addr >= ROM /\ addr <= ROM_END
    THEN [bus |-> b, ppu |-> p, ret |-> Cell(b.prg_rom, RomIndex(addr)), panic |-> FALSE]
    ELSE [bus |-> b, ppu |-> p, ret |-> 0, panic |-> FALSE]

(* The read loop of the OAM DMA arm: buffer[i] = memory_read_u8(hi + i), each *)
(* read made through the bus with whatever it does to the bus and the PPU. *)
(* The iterations i .. i + n - 1 in order (the first half of the range,    *)
(* then the second half on the state the first one left); `buffer` is the  *)
(* sequence of the bytes they read, and a panic ends the loop.              *)
RECURSIVE dma_read_loop(_, _, _, _, _)
dma_read_loop(b, p, hi, i, n) ==
    IF n = 1
    THEN Only({ [bus |-> r.bus, ppu |-> r.ppu, buffer |-> <<r.ret>>, panic |-> r.panic]
                : r \in {memory_read_u8(b, p, hi + i)} })
    ELSE Only({ IF l.panic
                THEN l
                ELSE Only({ [bus |-> h.bus, ppu |-> h.ppu,
                             buffer |-> l.buffer \o h.buffer, panic |-> h.panic]
                            : h \in {dma_read_loop(l.bus, l.ppu, hi, i + n \div 2,
                                                   n \div 2)} })
                : l \in {dma_read_loop(b, p, hi, i, n \div 2)} })

\* The OAM DMA arm of memory_write_u8: the read loop, then NesPPU::write_oam_dma.
oam_dma(b, p, data) ==
    Only({ IF r.panic
           THEN [bus |-> r.bus, ppu |-> r.ppu, panic |-> TRUE]
           ELSE [bus |-> r.bus,
                 ppu |-> write_oam_dma(r.ppu, [j \in 0..255 |-> r.buffer[j + 1]]),
                 panic |-> FALSE]
           : r \in {dma_read_loop(b, p, data * 256, 0, 256)} })

\* A ROM arm that stores the byte in PRG-ROM.
rom_write_through(b, p, addr, data) ==
    [bus |-> [b EXCEPT !.prg_rom = Store(b.prg_rom, RomIndex(addr), data)],
     ppu |-> p, panic |-> FALSE]

\* The ROM arm of memory_write_u8: panic!("invalid write to ROM").
rom_write(b, p, addr, data) == [bus |-> b, ppu |-> p, panic |-> TRUE]

RECURSIVE memory_write_u8(_, _, _, _)
memory_write_u8(b, p, addr, data) ==
    IF addr >= RAM /\ addr <= RAM_END
    THEN [bus |-> [b EXCEPT !.cpu_vram = Store(b.cpu_vram, RamIndex(addr), data)],
          ppu |-> p, panic |-> FALSE]
    ELSE IF addr = PPU_REG_CONTROLLER
    THEN [bus |-> b, ppu |-> write_control(p, data), panic |-> FALSE]
    ELSE IF addr = PPU_REG_MASK
    THEN [bus |-> b, ppu |-> write_mask(p, data), panic |-> FALSE]
    ELSE IF addr = PPU_REG_STATUS
    THEN [bus |-> b, ppu |-> p, panic |-> TRUE]
    ELSE IF addr = PPU_REG_OAM_ADDRESS
    THEN [bus |-> b, ppu |-> write_oam_address(p, data), panic |-> FALSE]
    ELSE IF addr = PPU_REG_OAM_DATA
    THEN [bus |-> b, ppu |-> write_oam_data(p, data), panic |-> FALSE]
    ELSE IF addr = PPU_REG_SCROLL
    THEN [bus |-> b, ppu |-> write_scroll(p, data), panic |-> FALSE]
    ELSE IF addr = PPU_REG_ADDRESS
    THEN [bus |-> b, ppu |-> write_address(p, data), panic |-> FALSE]
    ELSE IF addr = PPU_REG_DATA
    THEN Only({ [bus |-> b, ppu |-> r.ppu, panic |-> r.panic] : r \in {write_data(p, data)} })
    ELSE IF addr = PPU_REG_OAM_DMA
    THEN oam_dma(b, p, data)
    ELSE IF addr >= PPU_REG_END /\ addr <= PPU_END
    THEN memory_write_u8(b, p, PpuRegMirror(addr), data)
    ELSE IF addr >= APU /\ addr <= APU_END
    THEN [bus |-> b, ppu |-> p, panic |-> FALSE]
    ELSE IF addr = JOYPAD_1
    THEN [bus |-> [b EXCEPT !.joypad_1 = Joypad_write(b.joypad_1, data)],
          ppu |-> p, panic |-> FALSE]
    ELSE IF addr = JOYPAD_2
    THEN [bus |-> b, ppu |-> p, panic |-> FALSE]
    ELSE IF addr >= ROM /\ addr <= ROM_END
    THEN rom_write(b, p, addr, data)
    ELSE [bus |-> b, ppu |-> p, panic |-> FALSE]

\* Memory::memory_read_u16: low byte first, then the byte at addr + 1.
memory_read_u16(b, p, addr) ==
    Only({ Only({ [bus |-> hi.bus, ppu |-> hi.ppu, ret |-> hi.ret * 256 + lo.ret,
                   panic |-> lo.panic \/ hi.panic]
                  : hi \in {memory_read_u8(lo.bus, lo.ppu, addr + 1)} })
           : lo \in {memory_read_u8(b, p, addr)} })

----------------------------------------------------------------------------
(* opcodes.rs: the opcode table, and cpu.rs: CPU.                           *)

\* Bitwise operations on bytes (&, |, ^).
RECURSIVE BitAnd(_, _)
BitAnd(a, b) ==
    IF a = 0 \/ b = 0 THEN 0
    ELSE (IF a % 2 = 1 /\ b % 2 = 1 THEN 1 ELSE 0) + 2 * BitAnd(a \div 2, b \div 2)

BitOr(a, b) == a + b - BitAnd(a, b)
BitXor(a, b) == a + b - 2 * BitAnd(a, b)

\* u8 / u16 wrapping arithmetic, and a byte read as an i8.
Wrap8(x) == x % 256
Wrap16(x) == x % 65536
AsI8(v) == IF v >= 128 THEN v - 256 ELSE v

\* OpCode::new
OpCode_new(code, mnemonic, len, cycles, mode) ==
    [code |-> code, mnemonic |-> mnemonic, len |-> len, cycles |-> cycles, mode |-> mode]

\* CPU_OPCODES, in the order of the table (codes in decimal).
CPU_OPCODES == <<
    OpCode_new(105, "ADC", 2, 2, "Immediate"),
    OpCode_new(101, "ADC", 2, 3, "ZeroPage"),
    OpCode_new(117, "ADC", 2, 4, "ZeroPage_X"),
    OpCode_new(109, "ADC", 3, 4, "Absolute"),
    OpCode_new(125, "ADC", 3, 4, "Absolute_X"),
    OpCode_new(121, "ADC", 3, 4, "Absolute_Y"),
    OpCode_new(97, "ADC", 2, 6, "Indirect_X"),
    OpCode_new(113, "ADC", 2, 5, "Indirect_Y"),
    OpCode_new(41, "AND", 2, 2, "Immediate"),
    OpCode_new(37, "AND", 2, 3, "ZeroPage"),
    OpCode_new(53, "AND", 2, 4, "ZeroPage_X"),
    OpCode_new(45, "AND", 3, 4, "Absolute"),
    OpCode_new(61, "AND", 3, 4, "Absolute_X"),
    OpCode_new(57, "AND", 3, 4, "Absolute_Y"),
    OpCode_new(33, "AND", 2, 6, "Indirect_X"),
    OpCode_new(49, "AND", 2, 5, "Indirect_Y"),
    OpCode_new(10, "ASL", 1, 2, "NonAddressing"),
    OpCode_new(6, "ASL", 2, 5, "ZeroPage"),
    OpCode_new(22, "ASL", 2, 6, "ZeroPage_X"),
    OpCode_new(14, "ASL", 3, 6, "Absolute"),
    OpCode_new(30, "ASL", 3, 7, "Absolute_X"),
    OpCode_new(144, "BCC", 2, 2, "NonAddressing"),
    OpCode_new(176, "BCS", 2, 2, "NonAddressing"),
    OpCode_new(240, "BEQ", 2, 2, "NonAddressing"),
    OpCode_new(36, "BIT", 2, 3, "ZeroPage"),
    OpCode_new(44, "BIT", 3, 4, "Absolute"),
    OpCode_new(48, "BMI", 2, 2, "NonAddressing"),
    OpCode_new(208, "BNE", 2, 2, "NonAddressing"),
    OpCode_new(16, "BPL", 2, 2, "NonAddressing"),
    OpCode_new(0, "BRK", 1, 7, "NonAddressing"),
    OpCode_new(80, "BVC", 2, 2, "NonAddressing"),
    OpCode_new(112, "BVS", 2, 2, "NonAddressing"),
    OpCode_new(24, "CLC", 1, 2, "NonAddressing"),
    OpCode_new(216, "CLD", 1, 2, "NonAddressing"),
    OpCode_new(88, "CLI", 1, 2, "NonAddressing"),
    OpCode_new(184, "CLV", 1, 2, "NonAddressing"),
    OpCode_new(201, "CMP", 2, 2, "Immediate"),
    OpCode_new(197, "CMP", 2, 3, "ZeroPage"),
    OpCode_new(213, "CMP", 2, 4, "ZeroPage_X"),
    OpCode_new(205, "CMP", 3, 4, "Absolute"),
    OpCode_new(221, "CMP", 3, 4, "Absolute_X"),
    OpCode_new(217, "CMP", 3, 4, "Absolute_Y"),
    OpCode_new(193, "CMP", 2, 6, "Indirect_X"),
    OpCode_new(209, "CMP", 2, 5, "Indirect_Y"),
    OpCode_new(224, "CPX", 2, 2, "Immediate"),
    OpCode_new(228, "CPX", 2, 3, "ZeroPage"),
    OpCode_new(236, "CPX", 3, 4, "Absolute"),
    OpCode_new(192, "CPY", 2, 2, "Immediate"),
    OpCode_new(196, "CPY", 2, 3, "ZeroPage"),
    OpCode_new(204, "CPY", 3, 4, "Absolute"),
    OpCode_new(198, "DEC", 2, 5, "ZeroPage"),
    OpCode_new(214, "DEC", 2, 6, "ZeroPage_X"),
    OpCode_new(206, "DEC", 3, 6, "Absolute"),
    OpCode_new(222, "DEC", 3, 7, "Absolute_X"),
    OpCode_new(202, "DEX", 1, 2, "NonAddressing"),
    OpCode_new(136, "DEX", 1, 2, "NonAddressing"),
    OpCode_new(73, "EOR", 2, 2, "Immediate"),
    OpCode_new(69, "EOR", 2, 3, "ZeroPage"),
    OpCode_new(85, "EOR", 2, 4, "ZeroPage_X"),
    OpCode_new(77, "EOR", 3, 4, "Absolute"),
    OpCode_new(93, "EOR", 3, 4, "Absolute_X"),
    OpCode_new(89, "EOR", 3, 4, "Absolute_Y"),
    OpCode_new(65, "EOR", 2, 6, "Indirect_X"),
    OpCode_new(81, "EOR", 2, 5, "Indirect_Y"),
    OpCode_new(230, "INC", 2, 5, "ZeroPage"),
    OpCode_new(246, "INC", 2, 6, "ZeroPage_X"),
    OpCode_new(238, "INC", 3, 6, "Absolute"),
    OpCode_new(254, "INC", 3, 7, "Absolute_X"),
    OpCode_new(232, "INX", 1, 2, "NonAddressing"),
    OpCode_new(200, "INY", 1, 2, "NonAddressing"),
    OpCode_new(76, "JMP", 3, 3, "NonAddressing"),
    OpCode_new(108, "JMP", 3, 3, "NonAddressing"),
    OpCode_new(32, "JSR", 3, 6, "NonAddressing"),
    OpCode_new(169, "LDA", 2, 2, "Immediate"),
    OpCode_new(165, "LDA", 2, 3, "ZeroPage"),
    OpCode_new(181, "LDA", 2, 4, "ZeroPage_X"),
    OpCode_new(173, "LDA", 3, 4, "Absolute"),
    OpCode_new(189, "LDA", 3, 4, "Absolute_X"),
    OpCode_new(185, "LDA", 3, 4, "Absolute_Y"),
    OpCode_new(161, "LDA", 2, 6, "Indirect_X"),
    OpCode_new(177, "LDA", 2, 5, "Indirect_Y"),
    OpCode_new(162, "LDX", 2, 2, "Immediate"),
    OpCode_new(166, "LDX", 2, 3, "ZeroPage"),
    OpCode_new(182, "LDX", 2, 4, "ZeroPage_Y"),
    OpCode_new(174, "LDX", 3, 4, "Absolute"),
    OpCode_new(190, "LDX", 3, 4, "Absolute_Y"),
    OpCode_new(160, "LDY", 2, 2, "Immediate"),
    OpCode_new(164, "LDY", 2, 3, "ZeroPage"),
    OpCode_new(180, "LDY", 2, 4, "ZeroPage_X"),
    OpCode_new(172, "LDY", 3, 4, "Absolute"),
    OpCode_new(188, "LDY", 3, 4, "Absolute_X"),
    OpCode_new(74, "LSR", 1, 2, "NonAddressing"),
    OpCode_new(70, "LSR", 2, 5, "ZeroPage"),
    OpCode_new(86, "LSR", 2, 6, "ZeroPage_X"),
    OpCode_new(78, "LSR", 3, 6, "Absolute"),
    OpCode_new(94, "LSR", 3, 7, "Absolute_X"),
    OpCode_new(234, "NOP", 1, 2, "NonAddressing"),
    OpCode_new(9, "ORA", 2, 2, "Immediate"),
    OpCode_new(5, "ORA", 2, 3, "ZeroPage"),
    OpCode_new(21, "ORA", 2, 4, "ZeroPage_X"),
    OpCode_new(13, "ORA", 3, 4, "Absolute"),
    OpCode_new(29, "ORA", 3, 4, "Absolute_X"),
    OpCode_new(25, "ORA", 3, 4, "Absolute_Y"),
    OpCode_new(1, "ORA", 2, 6, "Indirect_X"),
    OpCode_new(17, "ORA", 2, 5, "Indirect_Y"),
    OpCode_new(72, "PHA", 1, 3, "NonAddressing"),
    OpCode_new(8, "PHP", 1, 3, "NonAddressing"),
    OpCode_new(104, "PLA", 1, 4, "NonAddressing"),
    OpCode_new(40, "PHP", 1, 4, "NonAddressing"),
    OpCode_new(42, "ROL", 1, 2, "NonAddressing"),
    OpCode_new(38, "ROL", 2, 5, "ZeroPage"),
    OpCode_new(54, "ROL", 2, 6, "ZeroPage_X"),
    OpCode_new(46, "ROL", 3, 6, "Absolute"),
    OpCode_new(62, "ROL", 3, 7, "Absolute_X"),
    OpCode_new(106, "ROR", 1, 2, "NonAddressing"),
    OpCode_new(102, "ROR", 2, 5, "ZeroPage"),
    OpCode_new(118, "ROR", 2, 6, "ZeroPage_X"),
    OpCode_new(110, "ROR", 3, 6, "Absolute"),
    OpCode_new(126, "ROR", 3, 7, "Absolute_X"),
    OpCode_new(64, "RTI", 1, 6, "NonAddressing"),
    OpCode_new(96, "RTI", 1, 6, "NonAddressing"),
    OpCode_new(233, "SBC", 2, 2, "Immediate"),
    OpCode_new(229, "SBC", 2, 3, "ZeroPage"),
    OpCode_new(245, "SBC", 2, 4, "ZeroPage_X"),
    OpCode_new(237, "SBC", 3, 4, "Absolute"),
    OpCode_new(253, "SBC", 3, 4, "Absolute_X"),
    OpCode_new(249, "SBC", 3, 4, "Absolute_Y"),
    OpCode_new(225, "SBC", 2, 6, "Indirect_X"),
    OpCode_new(241, "SBC", 2, 5, "Indirect_Y"),
    OpCode_new(56, "SEC", 1, 2, "NonAddressing"),
    OpCode_new(248, "SEC", 1, 2, "NonAddressing"),
    OpCode_new(120, "SEI", 1, 2, "NonAddressing"),
    OpCode_new(133, "STA", 2, 3, "ZeroPage"),
    OpCode_new(149, "STA", 2, 4, "ZeroPage_X"),
    OpCode_new(141, "STA", 2, 4, "Absolute"),
    OpCode_new(157, "STA", 2, 5, "Absolute_X"),
    OpCode_new(153, "STA", 2, 5, "Absolute_Y"),
    OpCode_new(129, "STA", 2, 6, "Indirect_X"),
    OpCode_new(145, "STA", 2, 6, "Indirect_Y"),
    OpCode_new(134, "STX", 2, 3, "ZeroPage"),
    OpCode_new(150, "STX", 2, 4, "ZeroPage_Y"),
    OpCode_new(142, "STX", 3, 4, "Absolute"),
    OpCode_new(132, "STY", 2, 3, "ZeroPage"),
    OpCode_new(148, "STY", 2, 4, "ZeroPage_X"),
    OpCode_new(140, "STY", 3, 4, "Absolute"),
    OpCode_new(170, "TAX", 1, 2, "NonAddressing"),
    OpCode_new(168, "TAY", 1, 2, "NonAddressing"),
    OpCode_new(186, "TSX", 1, 2, "NonAddressing"),
    OpCode_new(138, "TXA", 1, 2, "NonAddressing"),
    OpCode_new(154, "TXS", 1, 2, "NonAddressing"),
    OpCode_new(152, "TYA", 1, 2, "NonAddressing")
>>

\* OPCODE_MAP: the descriptors by code (a later entry of the table replaces an
\* earlier one with the same code).
OPCODE_MAP ==
    Only({ [code \in {t[i].code : i \in DOMAIN t} |->
                t[CHOOSE i \in DOMAIN t :
                      /\ t[i].code = code
                      /\ \A j \in DOMAIN t : t[j].code = code => j <= i]]
           : t \in {CPU_OPCODES} })

\* The opcode bytes that have a descriptor.
OpcodeBytes == DOMAIN OPCODE_MAP

OpCode(code) == OPCODE_MAP[code]

(* The opcode bytes that have an arm in the match of run_with_callback,    *)
(* by the handler the arm calls: the official instructions, and the        *)
(* undocumented ones (ALR, ANC, ARR, AXS, LAX, SAX, DCP, ISB, RLA, RRA,     *)
(* SLO, SRE, SBC 0xEB and the NOP variants).                                *)
OfficialArms ==
    {105, 101, 117, 109, 125, 121, 97, 113, 41, 37, 53, 45, 61, 57, 33, 49,
     10, 6, 22, 14, 30, 144, 176, 240, 36, 44, 48, 208, 16, 0, 80, 112, 24,
     216, 88, 184, 201, 197, 213, 205, 221, 217, 193, 209, 224, 228, 236,
     192, 196, 204, 198, 214, 206, 222, 202, 136, 73, 69, 85, 77, 93, 89, 65,
     81, 230, 246, 238, 254, 232, 200, 76, 108, 32, 169, 165, 181, 173, 189,
     185, 161, 177, 162, 166, 182, 174, 190, 160, 164, 180, 172, 188, 74, 70,
     86, 78, 94, 234, 9, 5, 21, 13, 29, 25, 1, 17, 72, 8, 104, 40, 42, 38,
     54, 46, 62, 106, 102, 118, 110, 126, 64, 96, 233, 229, 245, 237, 253,
     249, 225, 241, 56, 248, 120, 133, 149, 141, 157, 153, 129, 145, 134,
     150, 142, 132, 148, 140, 170, 168, 186, 138, 154, 152}

UnofficialArms ==
    {75, 11, 43, 107, 203, 167, 183, 175, 191, 163, 179, 135, 151, 143, 131,
     199, 215, 207, 223, 219, 211, 195, 231, 247, 239, 255, 251, 227, 243,
     39, 55, 47, 63, 59, 51, 35, 103, 119, 111, 127, 123, 99, 115, 7, 23, 15,
     31, 27, 3, 19, 71, 87, 79, 95, 91, 67, 83, 235, 128, 130, 137, 194, 226,
     2, 18, 34, 50, 66, 82, 98, 114, 146, 178, 210, 242, 26, 58, 90, 122,
     218, 250, 4, 68, 100, 20, 52, 84, 116, 212, 244, 12, 28, 60, 92, 124,
     220, 252}

DispatchBytes == OfficialArms \cup UnofficialArms

\* The arms of the match of run_with_callback for the documented opcodes, in the
\* order of the source: the codes of the arm and the handler it calls ("return":
\* the arm of BRK, which calls none).
Arms ==
    << <<{105, 101, 117, 109, 125, 121, 97, 113}, "adc">>,
      <<{41, 37, 53, 45, 61, 57, 33, 49}, "and">>,
      <<{10}, "asl_accumulator">>,
      <<{6, 22, 14, 30}, "asl">>,
      <<{144}, "bcc">>,
      <<{176}, "bcs">>,
      <<{240}, "beq">>,
      <<{36, 44}, "bit">>,
      <<{48}, "bmi">>,
      <<{208}, "bne">>,
      <<{16}, "bpl">>,
      <<{0}, "return">>,
      <<{80}, "bvc">>,
      <<{112}, "bvs">>,
      <<{24}, "clc">>,
      <<{216}, "cld">>,
      <<{88}, "cli">>,
      <<{184}, "clv">>,
      <<{201, 197, 213, 205, 221, 217, 193, 209}, "cmp">>,
      <<{224, 228, 236}, "cpx">>,
      <<{192, 196, 204}, "cpy">>,
      <<{198, 214, 206, 222}, "dec">>,
      <<{202}, "dex">>,
      <<{136}, "dey">>,
      <<{73, 69, 85, 77, 93, 89, 65, 81}, "eor">>,
      <<{230, 246, 238, 254}, "inc">>,
      <<{232}, "inx">>,
      <<{200}, "iny">>,
      <<{76}, "jmp">>,
      <<{108}, "jmp_indirect">>,
      <<{32}, "jsr">>,
      <<{169, 165, 181, 173, 189, 185, 161, 177}, "lda">>,
      <<{162, 166, 182, 174, 190}, "ldx">>,
      <<{160, 164, 180, 172, 188}, "ldy">>,
      <<{74}, "lsr_accumulator">>,
      <<{70, 86, 78, 94}, "lsr">>,
      <<{234}, "nop">>,
      <<{9, 5, 21, 13, 29, 25, 1, 17}, "ora">>,
      <<{72}, "pha">>,
      <<{8}, "php">>,
      <<{104}, "pla">>,
      <<{40}, "plp">>,
      <<{42}, "rol_accumulator">>,
      <<{38, 54, 46, 62}, "rol">>,
      <<{106}, "ror_accumulator">>,
      <<{102, 118, 110, 126}, "ror">>,
      <<{64}, "rti">>,
      <<{96}, "rts">>,
      <<{233, 229, 245, 237, 253, 249, 225, 241}, "sbc">>,
      <<{56}, "sec">>,
      <<{248}, "sed">>,
      <<{120}, "sei">>,
      <<{133, 149, 141, 157, 153, 129, 145}, "sta">>,
      <<{134, 150, 142}, "stx">>,
      <<{132, 148, 140}, "sty">>,
      <<{170}, "tax">>,
      <<{168}, "tay">>,
      <<{186}, "tsx">>,
      <<{138}, "txa">>,
      <<{154}, "txs">>,
      <<{152}, "tya">> >>

\* The handler the match calls for an opcode byte that has an arm in Arms.
ArmHandler(code) == Only({ Arms[i][2] : i \in {j \in DOMAIN Arms : code \in Arms[j][1]} })

\* The instruction each handler carries out, by its name in the 6502 instruction
\* set: the handlers for the accumulator and for the indirect jump carry out the
\* instruction of the handler they are a variant of.
HandlerInstruction ==
    [handler \in { Arms[i][2] : i \in DOMAIN Arms } |->
        CASE handler = "return" -> "BRK"
          [] handler = "asl_accumulator" -> "ASL"
          [] handler = "lsr_accumulator" -> "LSR"
          [] handler = "rol_accumulator" -> "ROL"
          [] handler = "ror_accumulator" -> "ROR"
          [] handler = "jmp_indirect" -> "JMP"
          [] handler = "adc" -> "ADC"
          [] handler = "and" -> "AND"
          [] handler = "asl" -> "ASL"
          [] handler = "bcc" -> "BCC"
          [] handler = "bcs" -> "BCS"
          [] handler = "beq" -> "BEQ"
          [] handler = "bit" -> "BIT"
          [] handler = "bmi" -> "BMI"
          [] handler = "bne" -> "BNE"
          [] handler = "bpl" -> "BPL"
          [] handler = "bvc" -> "BVC"
          [] handler = "bvs" -> "BVS"
          [] handler = "clc" -> "CLC"
          [] handler = "cld" -> "CLD"
          [] handler = "cli" -> "CLI"
          [] handler = "clv" -> "CLV"
          [] handler = "cmp" -> "CMP"
          [] handler = "cpx" -> "CPX"
          [] handler = "cpy" -> "CPY"
          [] handler = "dec" -> "DEC"
          [] handler = "dex" -> "DEX"
          [] handler = "dey" -> "DEY"
          [] handler = "eor" -> "EOR"
          [] handler = "inc" -> "INC"
          [] handler = "inx" -> "INX"
          [] handler = "iny" -> "INY"
          [] handler = "jmp" -> "JMP"
          [] handler = "jsr" -> "JSR"
          [] handler = "lda" -> "LDA"
          [] handler = "ldx" -> "LDX"
          [] handler = "ldy" -> "LDY"
          [] handler = "lsr" -> "LSR"
          [] handler = "nop" -> "NOP"
          [] handler = "ora" -> "ORA"
          [] handler = "pha" -> "PHA"
          [] handler = "php" -> "PHP"
          [] handler = "pla" -> "PLA"
          [] handler = "plp" -> "PLP"
          [] handler = "rol" -> "ROL"
          [] handler = "ror" -> "ROR"
          [] handler = "rti" -> "RTI"
          [] handler = "rts" -> "RTS"
          [] handler = "sbc" -> "SBC"
          [] handler = "sec" -> "SEC"
          [] handler = "sed" -> "SED"
          [] handler = "sei" -> "SEI"
          [] handler = "sta" -> "STA"
          [] handler = "stx" -> "STX"
          [] handler = "sty" -> "STY"
          [] handler = "tax" -> "TAX"
          [] handler = "tay" -> "TAY"
          [] handler = "tsx" -> "TSX"
          [] handler = "txa" -> "TXA"
          [] handler = "txs" -> "TXS"
          [] handler = "tya" -> "TYA"]

\* The bits of CpuFlags.
CpuFlags ==
    [CARRY |-> 0, ZERO |-> 1, INTERRUPT_DISABLE |-> 2, DECIMAL_MODE |-> 3,
     BREAK1 |-> 4, BREAK2 |-> 5, OVERFLOW |-> 6, NEGATIVE |-> 7]

STACK_BASE == 256
STACK_RESET == 253

\* CpuFlags::INTERRUPT_DISABLE | CpuFlags::BREAK2
ResetStatus == 36

CPU_new ==
    [reg_a |-> 0, reg_x |-> 0, reg_y |-> 0, reg_sp |-> STACK_RESET,
     status |-> ResetStatus, reg_pc |-> 0]

\* CPU::reset: registers cleared, PC from the vector at 0xFFFC.
CPU_reset(c, b, p) ==
    [c EXCEPT !.reg_a = 0, !.reg_x = 0, !.reg_y = 0, !.reg_sp = STACK_RESET,
              !.status = ResetStatus,
              !.reg_pc = memory_read_u16(b, p, 65532).ret]

\* CPU::update_cpuflags: ZERO (bit 1) and NEGATIVE (bit 7) from data.
update_cpuflags(status, data) == SetBit(SetBit(status, 1, data = 0), 7, Bit(data, 7))

(* CPU::get_absolute_address: the address an operand at `addr` names under  *)
(* `mode`, with the bus reads it takes.                                     *)
get_absolute_address(c, b, p, mode, addr) ==
    CASE mode = "Immediate" ->
            [bus |-> b, ppu |-> p, ret |-> addr, panic |-> FALSE]
      [] mode = "ZeroPage" ->
            memory_read_u8(b, p, addr)
      [] mode = "Absolute" ->
            memory_read_u16(b, p, addr)
      [] mode \in {"ZeroPage_X", "ZeroPage_Y"} ->
            Only({ [pos EXCEPT !.ret = Wrap8(@ + (IF mode = "ZeroPage_X"
                                                  THEN c.reg_x ELSE c.reg_y))]
                   : pos \in {memory_read_u8(b, p, addr)} })
      [] mode \in {"Absolute_X", "Absolute_Y"} ->
            Only({ [base EXCEPT !.ret = Wrap16(@ + (IF mode = "Absolute_X"
                                                    THEN c.reg_x ELSE c.reg_y))]
                   : base \in {memory_read_u16(b, p, addr)} })
      [] mode = "Indirect_X" ->
            Only({ Only({ Only({ [bus |-> hi.bus, ppu |-> hi.ppu,
                                  ret |-> hi.ret * 256 + lo.ret,
                                  panic |-> base.panic \/ lo.panic \/ hi.panic]
                                 : hi \in {memory_read_u8(lo.bus, lo.ppu,
                                               Wrap8(Wrap8(base.ret + c.reg_x) + 1))} })
                          : lo \in {memory_read_u8(base.bus, base.ppu,
                                                   Wrap8(base.ret + c.reg_x))} })
                   : base \in {memory_read_u8(b, p, addr)} })
      [] mode = "Indirect_Y" ->
            Only({ Only({ Only({ [bus |-> hi.bus, ppu |-> hi.ppu,
                                  ret |-> Wrap16(hi.ret * 256 + lo.ret + c.reg_y),
                                  panic |-> base.panic \/ lo.panic \/ hi.panic]
                                 : hi \in {memory_read_u8(lo.bus, lo.ppu,
                                                          Wrap8(base.ret + 1))} })
                          : lo \in {memory_read_u8(base.bus, base.ppu, base.ret)} })
                   : base \in {memory_read_u8(b, p, addr)} })
      [] OTHER ->     \* panic!("mode {:?} is not supported")
            [bus |-> b, ppu |-> p, ret |-> 0, panic |-> TRUE]

\* CPU::get_operand_address: the operand is at the PC.
get_operand_address(c, b, p, mode) ==
    IF mode = "Immediate"
    THEN [bus |-> b, ppu |-> p, ret |-> c.reg_pc, panic |-> FALSE]
    ELSE get_absolute_address(c, b, p, mode, c.reg_pc)

\* An instruction that reads its operand: the operand address, then the byte there.
ReadOperand(c, b, p, mode) ==
    Only({ Only({ [bus |-> v.bus, ppu |-> v.ppu, ret |-> v.ret, panic |-> a.panic \/ v.panic]
                  : v \in {memory_read_u8(a.bus, a.ppu, a.ret)} })
           : a \in {get_operand_address(c, b, p, mode)} })

\* An instruction that stores a register: the operand address, then the write.
WriteOperand(c, b, p, mode, data) ==
    Only({ Only({ [bus |-> w.bus, ppu |-> w.ppu, panic |-> a.panic \/ w.panic]
                  : w \in {memory_write_u8(a.bus, a.ppu, a.ret, data)} })
           : a \in {get_operand_address(c, b, p, mode)} })

(* An instruction that rewrites its operand (ASL, LSR, ROL, ROR, INC, DEC   *)
(* on memory): the operand address, the byte there, the write of            *)
(* new_value[byte] to the same address; `ret` is the byte read.             *)
ModifyOperand(c, b, p, mode, new_value) ==
    Only({ Only({ Only({ [bus |-> w.bus, ppu |-> w.ppu, ret |-> v.ret,
                          panic |-> a.panic \/ v.panic \/ w.panic]
                         : w \in {memory_write_u8(v.bus, v.ppu, a.ret, new_value[v.ret])} })
                  : v \in {memory_read_u8(a.bus, a.ppu, a.ret)} })
           : a \in {get_operand_address(c, b, p, mode)} })

\* A push that keeps the stack pointer where it was.
stack_push_u8_keeps_sp(c, b, p, data) ==
    Only({ [cpu |-> c, bus |-> w.bus, ppu |-> w.ppu, panic |-> w.panic]
           : w \in {memory_write_u8(b, p, STACK_BASE + c.reg_sp, data)} })

\* CPU::stack_push_u8: the write at 0x0100 + SP, then SP - 1 (wrapping).
stack_push_u8(c, b, p, data) ==
    Only({ [cpu |-> [c EXCEPT !.reg_sp = Wrap8(c.reg_sp - 1)],
            bus |-> w.bus, ppu |-> w.ppu, panic |-> w.panic]
           : w \in {memory_write_u8(b, p, STACK_BASE + c.reg_sp, data)} })

\* A push of a word that pushes the low byte first.
stack_push_u16_low_first(c, b, p, data) ==
    Only({ Only({ [hi EXCEPT !.panic = hi.panic \/ lo.panic]
                  : hi \in {stack_push_u8(lo.cpu, lo.bus, lo.ppu, data \div 256)} })
           : lo \in {stack_push_u8(c, b, p, data % 256)} })

\* CPU::stack_push_u16: the high byte, then the low byte.
stack_push_u16(c, b, p, data) ==
    Only({ Only({ [lo EXCEPT !.panic = hi.panic \/ lo.panic]
                  : lo \in {stack_push_u8(hi.cpu, hi.bus, hi.ppu, data % 256)} })
           : hi \in {stack_push_u8(c, b, p, data \div 256)} })

\* CPU::stack_pop_u8: SP + 1 (wrapping), then the read at 0x0100 + SP.
stack_pop_u8(c, b, p) ==
    Only({ [cpu |-> [c EXCEPT !.reg_sp = Wrap8(c.reg_sp + 1)],
            bus |-> v.bus, ppu |-> v.ppu, ret |-> v.ret, panic |-> v.panic]
           : v \in {memory_read_u8(b, p, STACK_BASE + Wrap8(c.reg_sp + 1))} })

\* CPU::stack_pop_u16: the low byte, then the high byte.
stack_pop_u16(c, b, p) ==
    Only({ Only({ [hi EXCEPT !.ret = hi.ret * 256 + lo.ret, !.panic = lo.panic \/ hi.panic]
                  : hi \in {stack_pop_u8(lo.cpu, lo.bus, lo.ppu)} })
           : lo \in {stack_pop_u8(c, b, p)} })

\* An addition that takes the carry out of bit 7 for the overflow flag.
add_accumulator_overflow_is_carry(c, value) ==
    Only({ [c EXCEPT !.reg_a = sum % 256,
                     !.status = update_cpuflags(
                         SetBit(SetBit(@, CpuFlags.CARRY, sum > 255),
                                CpuFlags.OVERFLOW, sum > 255),
                         sum % 256)]
           : sum \in {c.reg_a + value + (IF Bit(c.status, CpuFlags.CARRY) THEN 1 ELSE 0)} })

(* CPU::add_accumulator: sum = A + value + Carry as u16; Carry = sum > 0xff; *)
(* Overflow = (result ^ value) & (result ^ A) & 0x80 != 0; A = result.      *)
add_accumulator(c, value) ==
    Only({ [c EXCEPT !.reg_a = sum % 256,
                     !.status = update_cpuflags(
                         SetBit(SetBit(@, CpuFlags.CARRY, sum > 255),
                                CpuFlags.OVERFLOW,
                                BitAnd(BitAnd(BitXor(sum % 256, value),
                                              BitXor(sum % 256, c.reg_a)), 128) # 0),
                         sum % 256)]
           : sum \in {c.reg_a + value + (IF Bit(c.status, CpuFlags.CARRY) THEN 1 ELSE 0)} })

\* The two's complement of the operand, without the subtraction of 1.
sbc_value_negated(value0) ==
    Wrap8(IF AsI8(value0) = -128 THEN -128 ELSE 0 - AsI8(value0))

(* The operand CPU::sbc hands to add_accumulator:                          *)
(* (value0 as i8).wrapping_neg().wrapping_sub(1) as u8.                     *)
sbc_value(value0) ==
    Wrap8((IF AsI8(value0) = -128 THEN -128 ELSE 0 - AsI8(value0)) - 1)

\* CPU::compare
compare(c, lhs, rhs) ==
    [c EXCEPT !.status = update_cpuflags(SetBit(@, CpuFlags.CARRY, lhs >= rhs),
                                         Wrap8(lhs - rhs))]

(* CPU::branch: the offset at the PC as an i8;                              *)
(* PC = PC.wrapping_add(1).wrapping_add(offset as u16).                     *)
branch(c, b, p) ==
    Only({ [cpu |-> [c EXCEPT !.reg_pc = Wrap16(c.reg_pc + 1 + AsI8(dst.ret))],
            bus |-> dst.bus, ppu |-> dst.ppu, panic |-> dst.panic]
           : dst \in {memory_read_u8(b, p, c.reg_pc)} })

\* A pull of the status that keeps the two break bits of the byte popped.
pull_status_keeps_break(data) == data

(* The status CPU::plp and CPU::rti set from the byte popped: the byte with *)
(* BREAK1 cleared and BREAK2 set.                                           *)
pull_status(data) == SetBit(SetBit(data, CpuFlags.BREAK1, FALSE), CpuFlags.BREAK2, TRUE)

(* BRK taken as an instruction that does nothing: the loop goes on. *)
brk_continues(c, b, p) ==
    [cpu |-> c, bus |-> b, ppu |-> p, panic |-> FALSE, returned |-> FALSE]

(* The arm of BRK in run_with_callback: `return`, with nothing pushed and   *)
(* no flag set.                                                             *)
brk(c, b, p) ==
    [cpu |-> c, bus |-> b, ppu |-> p, panic |-> FALSE, returned |-> TRUE]

(* The match of run_with_callback on opcode.code: the machine after the     *)
(* handler the arm calls, and whether run returned. The arms of the         *)
(* undocumented opcodes are not here: no descriptor of the table carries   *)
(* one of their codes, so the lookup before the match fails for them.      *)
Execute(c, b, p, opcode) ==
    LET code == opcode.code
        mode == opcode.mode
        Flag(f) == Bit(c.status, CpuFlags[f])
        CarryIn == IF Bit(c.status, CpuFlags.CARRY) THEN 1 ELSE 0
        SetFlag(f, v) == [c EXCEPT !.status = SetBit(@, CpuFlags[f], v)]
        ZN(cc, data) == [cc EXCEPT !.status = update_cpuflags(@, data)]
        Implied(cc) ==
            [cpu |-> cc, bus |-> b, ppu |-> p, panic |-> FALSE, returned |-> FALSE]
        Done(r) ==
            [cpu |-> r.cpu, bus |-> r.bus, ppu |-> r.ppu, panic |-> r.panic,
             returned |-> FALSE]
        Read(NewCpu(_)) ==
            Only({ [cpu |-> NewCpu(v.ret), bus |-> v.bus, ppu |-> v.ppu,
                    panic |-> v.panic, returned |-> FALSE]
                   : v \in {ReadOperand(c, b, p, mode)} })
        Write(data) ==
            Only({ [cpu |-> c, bus |-> w.bus, ppu |-> w.ppu, panic |-> w.panic,
                    returned |-> FALSE]
                   : w \in {WriteOperand(c, b, p, mode, data)} })
        Modify(NewValue(_), CarryOut(_)) ==
            Only({ [cpu |-> ZN(SetFlag("CARRY", CarryOut(m.ret)), NewValue(m.ret)),
                    bus |-> m.bus, ppu |-> m.ppu, panic |-> m.panic, returned |-> FALSE]
                   : m \in {ModifyOperand(c, b, p, mode,
                                           [v \in Byte |-> NewValue(v)])} })
        Accumulator(NewValue(_), CarryOut(_)) ==
            Implied(ZN([SetFlag("CARRY", CarryOut(c.reg_a))
                            EXCEPT !.reg_a = NewValue(c.reg_a)],
                       NewValue(c.reg_a)))
        Branch(cond) == IF cond THEN Done(branch(c, b, p)) ELSE Implied(c)
        Asl(v) == Wrap8(v * 2)
        Lsr(v) == v \div 2
        Rol(v) == Wrap8(v * 2) + CarryIn
        Ror(v) == (v \div 2) + 128 * CarryIn
        Bit7(v) == Bit(v, 7)
        Bit0(v) == Bit(v, 0)
    IN
    CASE code = 0 ->                                            \* BRK: return
            brk(c, b, p)
      [] code \in {105, 101, 117, 109, 125, 121, 97, 113} ->      \* CPU::adc
            Read(LAMBDA v : add_accumulator(c, v))
      [] code \in {41, 37, 53, 45, 61, 57, 33, 49} ->             \* CPU::and
            Read(LAMBDA v : ZN([c EXCEPT !.reg_a = BitAnd(c.reg_a, v)],
                               BitAnd(c.reg_a, v)))
      [] code = 10 ->                                             \* CPU::asl_accumulator
            Accumulator(Asl, Bit7)
      [] code \in {6, 22, 14, 30} ->                              \* CPU::asl
            Modify(Asl, Bit7)
      [] code = 144 -> Branch(~Flag("CARRY"))                     \* CPU::bcc
      [] code = 176 -> Branch(Flag("CARRY"))                      \* CPU::bcs
      [] code = 240 -> Branch(Flag("ZERO"))                       \* CPU::beq
      [] code \in {36, 44} ->                                     \* CPU::bit
            Read(LAMBDA v :
                [c EXCEPT !.status =
                    SetBit(SetBit(SetBit(@, CpuFlags.ZERO, BitAnd(c.reg_a, v) = 0),
                                  CpuFlags.OVERFLOW, Bit(v, 6)),
                           CpuFlags.NEGATIVE, Bit(v, 7))])
      [] code = 48 -> Branch(Flag("NEGATIVE"))                    \* CPU::bmi
      [] code = 208 -> Branch(~Flag("ZERO"))                      \* CPU::bne
      [] code = 16 -> Branch(~Flag("NEGATIVE"))                   \* CPU::bpl
      [] code = 80 -> Branch(~Flag("OVERFLOW"))                   \* CPU::bvc
      [] code = 112 -> Branch(Flag("OVERFLOW"))                   \* CPU::bvs
      [] code = 24 -> Implied(SetFlag("CARRY", FALSE))            \* CPU::clc
      [] code = 216 -> Implied(SetFlag("DECIMAL_MODE", FALSE))    \* CPU::cld
      [] code = 88 -> Implied(SetFlag("INTERRUPT_DISABLE", FALSE)) \* CPU::cli
      [] code = 184 -> Implied(SetFlag("OVERFLOW", FALSE))        \* CPU::clv
      [] code \in {201, 197, 213, 205, 221, 217, 193, 209} ->     \* CPU::cmp
            Read(LAMBDA v : compare(c, c.reg_a, v))
      [] code \in {224, 228, 236} ->                              \* CPU::cpx
            Read(LAMBDA v : compare(c, c.reg_x, v))
      [] code \in {192, 196, 204} ->                              \* CPU::cpy
            Read(LAMBDA v : compare(c, c.reg_y, v))
      [] code \in {198, 214, 206, 222} ->                         \* CPU::dec
            Modify(LAMBDA v : Wrap8(v - 1), LAMBDA v : Flag("CARRY"))
      [] code = 202 ->                                            \* CPU::dex
            Implied(ZN([c EXCEPT !.reg_x = Wrap8(c.reg_x - 1)], Wrap8(c.reg_x - 1)))
      [] code = 136 ->                                            \* CPU::dey
            Implied(ZN([c EXCEPT !.reg_y = Wrap8(c.reg_y - 1)], Wrap8(c.reg_y - 1)))
      [] code \in {73, 69, 85, 77, 93, 89, 65, 81} ->             \* CPU::eor
            Read(LAMBDA v : ZN([c EXCEPT !.reg_a = BitXor(c.reg_a, v)],
                               BitXor(c.reg_a, v)))
      [] code \in {230, 246, 238, 254} ->                         \* CPU::inc
            Modify(LAMBDA v : Wrap8(v + 1), LAMBDA v : Flag("CARRY"))
      [] code = 232 ->                                            \* CPU::inx
            Implied(ZN([c EXCEPT !.reg_x = Wrap8(c.reg_x + 1)], Wrap8(c.reg_x + 1)))
      [] code = 200 ->                                            \* CPU::iny
            Implied(ZN([c EXCEPT !.reg_y = Wrap8(c.reg_y + 1)], Wrap8(c.reg_y + 1)))
      [] code = 76 ->                                             \* CPU::jmp
            Only({ [cpu |-> [c EXCEPT !.reg_pc = a.ret], bus |-> a.bus, ppu |-> a.ppu,
                    panic |-> a.panic, returned |-> FALSE]
                   : a \in {memory_read_u16(b, p, c.reg_pc)} })
      [] code = 108 ->                                            \* CPU::jmp_indirect
            Only({ Only({ [cpu |-> [c EXCEPT !.reg_pc = t.ret], bus |-> t.bus,
                           ppu |-> t.ppu, panic |-> a.panic \/ t.panic,
                           returned |-> FALSE]
                          : t \in {IF a.ret % 256 = 255
                                   THEN Only({ Only({ [hi EXCEPT
                                                         !.ret = hi.ret * 256 + lo.ret,
                                                         !.panic = lo.panic \/ hi.panic]
                                                      : hi \in {memory_read_u8(lo.bus, lo.ppu,
                                                                    a.ret - 255)} })
                                               : lo \in {memory_read_u8(a.bus, a.ppu,
                                                                        a.ret)} })
                                   ELSE memory_read_u16(a.bus, a.ppu, a.ret)} })
                   : a \in {memory_read_u16(b, p, c.reg_pc)} })
      [] code = 32 ->                                             \* CPU::jsr
            Only({ Only({ [cpu |-> [s.cpu EXCEPT !.reg_pc = a.ret], bus |-> a.bus,
                           ppu |-> a.ppu, panic |-> s.panic \/ a.panic,
                           returned |-> FALSE]
                          : a \in {memory_read_u16(s.bus, s.ppu, c.reg_pc)} })
                   : s \in {stack_push_u16(c, b, p, c.reg_pc + 2 - 1)} })
      [] code \in {169, 165, 181, 173, 189, 185, 161, 177} ->     \* CPU::lda
            Read(LAMBDA v : ZN([c EXCEPT !.reg_a = v], v))
      [] code \in {162, 166, 182, 174, 190} ->                    \* CPU::ldx
            Read(LAMBDA v : ZN([c EXCEPT !.reg_x = v], v))
      [] code \in {160, 164, 180, 172, 188} ->                    \* CPU::ldy
            Read(LAMBDA v : ZN([c EXCEPT !.reg_y = v], v))
      [] code = 74 ->                                             \* CPU::lsr_accumulator
            Accumulator(Lsr, Bit0)
      [] code \in {70, 86, 78, 94} ->                             \* CPU::lsr
            Modify(Lsr, Bit0)
      [] code = 234 -> Implied(c)                                 \* CPU::nop
      [] code \in {9, 5, 21, 13, 29, 25, 1, 17} ->                \* CPU::ora
            Read(LAMBDA v : ZN([c EXCEPT !.reg_a = BitOr(c.reg_a, v)],
                               BitOr(c.reg_a, v)))
      [] code = 72 -> Done(stack_push_u8(c, b, p, c.reg_a))       \* CPU::pha
      [] code = 8 ->                                              \* CPU::php
            Done(stack_push_u8(c, b, p,
                    SetBit(SetBit(c.status, CpuFlags.BREAK1, TRUE),
                           CpuFlags.BREAK2, TRUE)))
      [] code = 104 ->                                            \* CPU::pla
            Only({ [cpu |-> ZN([v.cpu EXCEPT !.reg_a = v.ret], v.ret), bus |-> v.bus,
                    ppu |-> v.ppu, panic |-> v.panic, returned |-> FALSE]
                   : v \in {stack_pop_u8(c, b, p)} })
      [] code = 40 ->                                             \* CPU::plp
            Only({ [cpu |-> [v.cpu EXCEPT !.status = pull_status(v.ret)], bus |-> v.bus,
                    ppu |-> v.ppu, panic |-> v.panic, returned |-> FALSE]
                   : v \in {stack_pop_u8(c, b, p)} })
      [] code = 42 ->                                             \* CPU::rol_accumulator
            Accumulator(Rol, Bit7)
      [] code \in {38, 54, 46, 62} ->                             \* CPU::rol
            Modify(Rol, Bit7)
      [] code = 106 ->                                            \* CPU::ror_accumulator
            Accumulator(Ror, Bit0)
      [] code \in {102, 118, 110, 126} ->                         \* CPU::ror
            Modify(Ror, Bit0)
      [] code = 64 ->                                             \* CPU::rti
            Only({ Only({ [cpu |-> [t.cpu EXCEPT !.status = pull_status(s.ret),
                                               !.reg_pc = t.ret],
                           bus |-> t.bus, ppu |-> t.ppu, panic |-> s.panic \/ t.panic,
                           returned |-> FALSE]
                          : t \in {stack_pop_u16(s.cpu, s.bus, s.ppu)} })
                   : s \in {stack_pop_u8(c, b, p)} })
      [] code = 96 ->                                             \* CPU::rts
            \* stack_pop_u16() + 1 is a checked u16 addition
            Only({ [cpu |-> [t.cpu EXCEPT !.reg_pc = Wrap16(t.ret + 1)], bus |-> t.bus,
                    ppu |-> t.ppu, panic |-> t.panic \/ t.ret = 65535,
                    returned |-> FALSE]
                   : t \in {stack_pop_u16(c, b, p)} })
      [] code \in {233, 229, 245, 237, 253, 249, 225, 241} ->     \* CPU::sbc
            Read(LAMBDA v : add_accumulator(c, sbc_value(v)))
      [] code = 56 -> Implied(SetFlag("CARRY", TRUE))             \* CPU::sec
      [] code = 248 -> Implied(SetFlag("DECIMAL_MODE", TRUE))     \* CPU::sed
      [] code = 120 -> Implied(SetFlag("INTERRUPT_DISABLE", TRUE)) \* CPU::sei
      [] code \in {133, 149, 141, 157, 153, 129, 145} ->          \* CPU::sta
            Write(c.reg_a)
      [] code \in {134, 150, 142} -> Write(c.reg_x)               \* CPU::stx
      [] code \in {132, 148, 140} -> Write(c.reg_y)               \* CPU::sty
      [] code = 170 -> Implied(ZN([c EXCEPT !.reg_x = c.reg_a], c.reg_a))   \* CPU::tax
      [] code = 168 -> Implied(ZN([c EXCEPT !.reg_y = c.reg_a], c.reg_a))   \* CPU::tay
      [] code = 186 -> Implied(ZN([c EXCEPT !.reg_x = c.reg_sp], c.reg_sp)) \* CPU::tsx
      [] code = 138 -> Implied(ZN([c EXCEPT !.reg_a = c.reg_x], c.reg_x))   \* CPU::txa
      [] code = 154 -> Implied([c EXCEPT !.reg_sp = c.reg_x])               \* CPU::txs
      [] code = 152 -> Implied(ZN([c EXCEPT !.reg_a = c.reg_y], c.reg_y))   \* CPU::tya

\* The end of a loop iteration: the PC moves past the operand unless the instruction set it.
AdvancePc(e, pc_state, opcode) ==
    IF ~e.returned /\ ~e.panic /\ pc_state = e.cpu.reg_pc
    THEN [e.cpu EXCEPT !.reg_pc = e.cpu.reg_pc + (opcode.len - 1)]
    ELSE e.cpu

(* One iteration of the loop of CPU::run_with_callback under CPU::run (the  *)
(* callback does nothing): fetch, look up, execute, advance the PC. The     *)
(* loop holds no call of Bus::poll_nmi and none of Bus::tick; `polled` and  *)
(* `ticked` report the calls the iteration made, and `unknown` that the     *)
(* lookup found no descriptor (expect: "OpCode: .. is not recognized").     *)
run_step(c, b, p) ==
    Only({ IF f.ret \notin OpcodeBytes \/ c.reg_pc = 65535   \* reg_pc += 1 is checked
           THEN [cpu |-> [c EXCEPT !.reg_pc = Wrap16(c.reg_pc + 1)], bus |-> f.bus,
                 ppu |-> f.ppu,
                 panic |-> TRUE, returned |-> FALSE, code |-> f.ret,
                 polled |-> FALSE, ticked |-> 0, unknown |-> c.reg_pc # 65535]
           ELSE Only({ Only({ [cpu |-> AdvancePc(e, c.reg_pc + 1, opcode),
                               bus |-> e.bus, ppu |-> e.ppu, panic |-> e.panic,
                               returned |-> e.returned, code |-> f.ret,
                               polled |-> FALSE, ticked |-> 0, unknown |-> FALSE]
                              : e \in {Execute([c EXCEPT !.reg_pc = c.reg_pc + 1],
                                               f.bus, f.ppu, opcode)} })
                       : opcode \in {OpCode(f.ret)} })
           : f \in {memory_read_u8(b, p, c.reg_pc)} })

----------------------------------------------------------------------------
(* trace.rs: trace(cpu), the callback main installs with                    *)
(* run_with_callback. `line` holds the fields the line is formatted from    *)
(* (the address, the bytes of the hex dump, the mnemonic, the numbers of    *)
(* the operand text and the registers); every read goes through            *)
(* CPU::memory_read_u8, that is through Bus::memory_read_u8.                *)

NoLine == [begin |-> 0, dump |-> <<>>, mnemonic |-> "", operand |-> <<>>,
           a |-> 0, x |-> 0, y |-> 0, p |-> 0, sp |-> 0]

\* let (operand_addr, value) = match ops.mode { .. }
trace_operand(c, b, p, ops, begin) ==
    IF ops.mode \in {"Immediate", "NonAddressing"}
    THEN [bus |-> b, ppu |-> p, panic |-> FALSE, operand_addr |-> 0, value |-> 0]
    ELSE Only({ Only({ [bus |-> v.bus, ppu |-> v.ppu, panic |-> a.panic \/ v.panic,
                        operand_addr |-> a.ret, value |-> v.ret]
                       : v \in {memory_read_u8(a.bus, a.ppu, a.ret)} })
                : a \in {get_absolute_address(c, b, p, ops.mode, begin + 1)} })

\* The target shown for JMP (ind): the pointer read as CPU::jmp_indirect reads it.
trace_jmp_addr(b, p, addr) ==
    IF addr % 256 = 255
    THEN Only({ Only({ [bus |-> hi.bus, ppu |-> hi.ppu, ret |-> hi.ret * 256 + lo.ret,
                        panic |-> lo.panic \/ hi.panic]
                       : hi \in {memory_read_u8(lo.bus, lo.ppu, addr - 255)} })
                : lo \in {memory_read_u8(b, p, addr)} })
    ELSE memory_read_u16(b, p, addr)

\* let operand_string = match ops.len { .. }: the reads it makes, the bytes it adds
\* to the dump and the numbers it formats; panic!("invalid addressing mode ..") for
\* a mode the length has no arm for.
trace_operand_string(c, b, p, ops, begin, o) ==
    LET Text(r, dump, operand, panic) ==
            [bus |-> r.bus, ppu |-> r.ppu, panic |-> r.panic \/ panic,
             dump |-> dump, operand |-> operand]
    IN
    CASE ops.len = 1 ->
            Text([bus |-> b, ppu |-> p, panic |-> FALSE], <<>>,
                 IF ops.code \in {10, 74, 42, 106} THEN <<"A">> ELSE <<>>, FALSE)
      [] ops.len = 2 ->
            Only({ Text(r, <<r.ret>>,
                        CASE ops.mode = "Immediate" -> <<"#", r.ret>>
                          [] ops.mode = "ZeroPage" -> <<"zp", o.operand_addr, o.value>>
                          [] ops.mode \in {"ZeroPage_X", "ZeroPage_Y"} ->
                                <<ops.mode, r.ret, o.operand_addr, o.value>>
                          [] ops.mode = "Indirect_X" ->
                                <<ops.mode, r.ret, Wrap8(r.ret + c.reg_x),
                                  o.operand_addr, o.value>>
                          [] ops.mode = "Indirect_Y" ->
                                <<ops.mode, r.ret, Wrap16(o.operand_addr - c.reg_y),
                                  o.operand_addr, o.value>>
                          [] ops.mode = "NonAddressing" ->
                                <<"rel", begin + 2 + AsI8(r.ret)>>
                          [] OTHER -> <<>>,
                        ops.mode \notin {"Immediate", "ZeroPage", "ZeroPage_X",
                                         "ZeroPage_Y", "Indirect_X", "Indirect_Y",
                                         "NonAddressing"})
                   : r \in {memory_read_u8(b, p, begin + 1)} })
      [] ops.len = 3 ->
            Only({ IF ops.mode = "NonAddressing" /\ ops.code = 108
                   THEN Only({ Text(j, <<r.ret % 256, r.ret \div 256>>,
                                    <<"ind", r.ret, j.ret>>, r.panic)
                               : j \in {trace_jmp_addr(r.bus, r.ppu, r.ret)} })
                   ELSE Text(r, <<r.ret % 256, r.ret \div 256>>,
                             CASE ops.mode = "NonAddressing" -> <<"abs", r.ret>>
                               [] ops.mode = "Absolute" ->
                                     <<"abs=", o.operand_addr, o.value>>
                               [] ops.mode \in {"Absolute_X", "Absolute_Y"} ->
                                     <<ops.mode, r.ret, o.operand_addr, o.value>>
                               [] OTHER -> <<>>,
                             ops.mode \notin {"NonAddressing", "Absolute",
                                              "Absolute_X", "Absolute_Y"})
                   : r \in {memory_read_u16(b, p, begin + 1)} })
      [] OTHER ->
            Text([bus |-> b, ppu |-> p, panic |-> FALSE], <<>>, <<>>, FALSE)

(* trace(cpu): the opcode at the PC is read and looked up (unwrap), then    *)
(* the operand address and the byte there, then the operand bytes. begin +  *)
(* 1 is a checked u16 sum.                                                  *)
trace(c, b, p) ==
    Only({ IF f.ret \notin OpcodeBytes
           THEN [bus |-> f.bus, ppu |-> f.ppu, panic |-> TRUE, code |-> f.ret,
                 line |-> NoLine]
           ELSE Only({ Only({ Only({
                    [bus |-> s.bus, ppu |-> s.ppu,
                     panic |-> \/ f.panic \/ o.panic \/ s.panic
                               \/ /\ c.reg_pc = 65535
                                  /\ \/ ops.len \in {2, 3}
                                     \/ ops.mode \notin {"Immediate", "NonAddressing"},
                     code |-> f.ret,
                     line |-> [begin |-> c.reg_pc, dump |-> <<f.ret>> \o s.dump,
                               mnemonic |-> ops.mnemonic, operand |-> s.operand,
                               a |-> c.reg_a, x |-> c.reg_x, y |-> c.reg_y,
                               p |-> c.status, sp |-> c.reg_sp]]
                    : s \in {trace_operand_string(c, o.bus, o.ppu, ops, c.reg_pc, o)} })
                    : o \in {trace_operand(c, f.bus, f.ppu, ops, c.reg_pc)} })
                    : ops \in {OpCode(f.ret)} })
           : f \in {memory_read_u8(b, p, c.reg_pc)} })

----------------------------------------------------------------------------
(* rom.rs: the cartridge parser. A Vec<u8> is its length and its non-zero   *)
(* bytes, indexed from 0.                                                   *)

NES_HEADER == 0
NUM_16KB_ROM_BANKS == 4
NUM_8KB_VROM_BANKS == 5
NES_CONTROL_BYTE1 == 6
NES_CONTROL_BYTE2 == 7

NES_TAG == <<78, 69, 83, 26>>
PRG_ROM_PAGE_SIZE == 16384
CHR_ROM_PAGE_SIZE == 8192

\* INesControlByte1 and INesControlByte2: the masks of the flags.
INesControlByte1 ==
    [VERTICAL_MIRRORING |-> 1, BATTERY_PACKED_RAM |-> 2, TRAINER |-> 4,
     FOUR_SCREEN_LAYOUT |-> 8, MAPPER_TYPE_LOW |-> 240]

INesControlByte2 ==
    [INES_VERSION_RESERVE |-> 3, INES_VERSION |-> 12, MAPPER_TYPE_HIGHT |-> 240]

\* raw[a .. b]: the bytes a .. b-1; the slice is checked (a <= b and b <= len).
SliceInRange(raw, a, b) == a <= b /\ b <= raw.len

Slice(raw, a, b) ==
    [len |-> b - a,
     mem |-> [i \in {j - a : j \in (DOMAIN raw.mem) \cap (a..(b - 1))} |-> raw.mem[i + a]]]

\* &raw[a .. b] != tag, for a slice that is in range.
SliceDiffers(raw, a, b, tag) ==
    \/ b - a # Len(tag)
    \/ \E i \in 1..Len(tag) : Cell(raw.mem, a + i - 1) # tag[i]

Rom_panic == [panic |-> TRUE, ok |-> FALSE, err |-> "", rom |-> None]
Rom_err(msg) == [panic |-> FALSE, ok |-> FALSE, err |-> msg, rom |-> None]
Rom_ok(rom) == [panic |-> FALSE, ok |-> TRUE, err |-> "", rom |-> Some(rom)]

(* The PRG bank taken to start right after the header, trainer or not. *)
prg_rom_start_ignores_trainer(skip_trainer) == 16

\* let prg_rom_start = (16 + if skip_trainer { 512 } else { 0 })
prg_rom_start(skip_trainer) == 16 + (IF skip_trainer THEN 512 ELSE 0)

\* match (four_screen, vertical_mirroring)
screen_mirroring(four_screen, vertical_mirroring) ==
    IF four_screen THEN "FOUR_SCREEN"
    ELSE IF vertical_mirroring THEN "VERTICAL"
    ELSE "HORIZONTAL"

(* The rest of Rom::new once the tag has matched and bytes 6 and 7 exist.   *)
(* from_bits(..).unwrap() cannot fail: the flags of either control byte     *)
(* cover all eight bits.                                                    *)
Rom_new_body(raw) ==
    LET byte1 == Cell(raw.mem, NES_CONTROL_BYTE1)
        byte2 == Cell(raw.mem, NES_CONTROL_BYTE2)
        mapper == BitOr(BitAnd(byte2, INesControlByte2.MAPPER_TYPE_HIGHT),
                        BitAnd(byte1, INesControlByte1.MAPPER_TYPE_LOW) \div 16)
        ines_ver == BitAnd(byte2, INesControlByte2.INES_VERSION) \div 4
        four_screen == BitAnd(byte1, INesControlByte1.FOUR_SCREEN_LAYOUT) # 0
        vertical_mirroring == BitAnd(byte1, INesControlByte1.VERTICAL_MIRRORING) # 0
        prg_rom_size == Cell(raw.mem, NUM_16KB_ROM_BANKS) * PRG_ROM_PAGE_SIZE
        chr_rom_size == Cell(raw.mem, NUM_8KB_VROM_BANKS) * CHR_ROM_PAGE_SIZE
        skip_trainer == BitAnd(byte1, INesControlByte1.TRAINER) # 0
        prg_start == prg_rom_start(skip_trainer)
        chr_rom_start == prg_start + prg_rom_size
    IN
    IF ines_ver # 0 THEN Rom_err("not iNES 1.0")
    ELSE IF ~SliceInRange(raw, prg_start, prg_start + prg_rom_size) THEN Rom_panic
    ELSE IF ~SliceInRange(raw, chr_rom_start, chr_rom_start + chr_rom_size) THEN Rom_panic
    ELSE Rom_ok([prg_rom |-> Slice(raw, prg_start, prg_start + prg_rom_size),
                 chr_rom |-> Slice(raw, chr_rom_start, chr_rom_start + chr_rom_size),
                 mapper |-> mapper,
                 screen_mirroring |-> screen_mirroring(four_screen, vertical_mirroring)])

(* Rom::new. The slice raw[0 .. 4] and the indexings raw[6] and raw[7] are  *)
(* checked: on a buffer too short for them the call panics.                 *)
Rom_new(raw) ==
    IF ~SliceInRange(raw, NES_HEADER, NUM_16KB_ROM_BANKS) THEN Rom_panic
    ELSE IF SliceDiffers(raw, NES_HEADER, NUM_16KB_ROM_BANKS, NES_TAG)
    THEN Rom_err("not iNES format")
    ELSE IF raw.len <= NES_CONTROL_BYTE1 \/ raw.len <= NES_CONTROL_BYTE2 THEN Rom_panic
    ELSE Rom_new_body(raw)

\* rom.rs, mod test: create_test_rom. The parts one after the other.
VecAppend(v, w) ==
    [len |-> v.len + w.len,
     mem |-> [i \in (DOMAIN v.mem) \cup {j + v.len : j \in DOMAIN w.mem} |->
                 IF i < v.len THEN v.mem[i] ELSE w.mem[i - v.len]]]

create_test_rom(rom) ==
    VecAppend(VecAppend(VecAppend(rom.header,
                                  IF is_some(rom.trainer) THEN rom.trainer[1]
                                  ELSE [len |-> 0, mem |-> <<>>]),
                        rom.prg_rom),
              rom.chr_rom)

----------------------------------------------------------------------------
(* renderer.rs: Frame, and the sprite pass of render. Frame.data is a Vec:  *)
(* its length and the bytes stored in it.                                   *)

Frame_WIDTH == 256
Frame_HEIGHT == 240

\* Frame::new
Frame_new == [len |-> Frame_WIDTH * Frame_HEIGHT * 3, mem |-> <<>>]

\* Frame::set_pixel: the only check is base + 2 < data.len().
set_pixel(frame, x, y, rgb) ==
    LET base == y * 3 * Frame_WIDTH + x * 3 IN
    IF base + 2 < frame.len
    THEN [frame EXCEPT !.mem = Store(Store(Store(@, base, rgb[1]), base + 1, rgb[2]),
                                     base + 2, rgb[3])]
    ELSE frame

\* The loop 'draw_sprite_row of render for row y of the tile, from column x down to
\* 0: bit 7 - x of the two planes gives the value, 0 is skipped, and the pixel goes
\* to the place the flips give. colours[value] is SYSTEM_PALETTE[sprite_palette[value]].
RECURSIVE draw_sprite_row(_, _, _, _, _, _, _, _)
draw_sprite_row(frame, s, tile, colours, y, x, hi, lo) ==
    LET value == (lo % 2) * 2 + (hi % 2)
        px == IF s.flip_horizontal THEN s.tx + 7 - x ELSE s.tx + x
        py == IF s.flip_vertical THEN s.ty + 7 - y ELSE s.ty + y
    IN
    Only({ IF x = 0 THEN f ELSE draw_sprite_row(f, s, tile, colours, y, x - 1,
                                                hi \div 2, lo \div 2)
           : f \in {IF value = 0 THEN frame ELSE set_pixel(frame, px, py, colours[value])} })

\* The loop over the rows y .. 7 of the tile of one sprite.
RECURSIVE draw_sprite(_, _, _, _, _)
draw_sprite(frame, s, tile, colours, y) ==
    Only({ IF y = 7 THEN f ELSE draw_sprite(f, s, tile, colours, y + 1)
           : f \in {draw_sprite_row(frame, s, tile, colours, y, 7, tile[y], tile[y + 8])} })

----------------------------------------------------------------------------
(* Inputs of the actions *)

\* CPU cycle counts handed to Bus::tick: none, and the largest whose triple is a u8.
BusTickCycles == {0, 85}

\* Bytes written to the address latch and the scroll register.
LatchBytes == {5, 99, 255}

\* PPUDATA reads and writes made in one run of SpecData.
MaxDataOps == 2

\* High and low bytes written to the address latch before PPUDATA accesses: the four
\* nametables and the palette page; offsets 0x10 and 0x20.
DataHiBytes == {32, 36, 40, 44, 63}
DataLoBytes == {16, 32}

\* Bytes written to the control register before PPUDATA accesses: stride 1 / 32.
DataControlBytes == {0, 4}

\* The byte written through PPUDATA.
DataBytes == {102}

\* The CHR bank of the cartridge: 8 KiB, three bytes of it non-zero.
ChrImage == [len |-> 8192, mem |-> [i \in {0, 1, 32} |-> 17 + i]]

\* The PRG bank of the cartridge under SpecMem: 16 KiB, three bytes of it non-zero.
RomImage == [i \in {0, 16, 255} |-> 169 - (i % 100)]

\* Bus writes under SpecMem, as <<address, byte>>: RAM cell 0x010 through 0x0010 and
\* its mirror 0x1810, RAM cell 0x7FF; the OAM address (0x2003); OAM DMA (0x4014) from
\* RAM pages 0x00 and 0x07, the RAM mirror page 0x18, the unmapped page 0x60 and ROM
\* page 0x80; PRG-ROM; the PPU status register and a mirror of it.
MemWrites ==
    ({16, 6160, 2047} \X {102})
    \cup ({PPU_REG_OAM_ADDRESS} \X {16, 255})
    \cup ({PPU_REG_OAM_DMA} \X {0, 7, 24, 96, 128})
    \cup ({ROM, ROM_END} \X {102})
    \cup ({PPU_REG_STATUS, 16378} \X {102})

\* Bus reads under SpecMem: RAM cells 0x010 and 0x7FF and mirrors of them, PRG-ROM.
MemReads == {16, 2064, 2047, 8191, ROM, 32784}

\* Gamepad reads in a row are counted up to this many.
MaxPadReads == 10

\* Bytes written to 0x4016: strobe off, strobe on, strobe on with other bits set.
PadBytes == {0, 1, 255}

\* Buttons pressed and released: A, B and RIGHT (bits 0, 1, 7).
PadButtons == {0, 1, 7}

\* The two values of ControlRegister::vram_address_increment.
Strides == {1, 32}

\* Addresses of bus writes and reads: the registers and one mirror of each.
BusWriteAddrs == {PPU_REG_CONTROLLER, 16376}
BusReadAddrs == {PPU_REG_STATUS, 16378}

\* Programs are MaxProgLen instructions long; the rest of PRG-ROM is 0 (BRK).
MaxProgLen == 3

\* NOP; LDX #$80; LDX #$00; STX $2000; LDA $2002
Instrs == {<<234>>, <<162, 128>>, <<162, 0>>, <<142, 0, 32>>, <<173, 2, 32>>}

Programs == [1..MaxProgLen -> Instrs]

RECURSIVE Flatten(_)
Flatten(prog) == IF prog = <<>> THEN <<>> ELSE Head(prog) \o Flatten(Tail(prog))

\* A 16 KiB PRG bank: the program at 0x8000 and the reset vector 0x8000 at 0xFFFC.
PrgImage(prog) ==
    LET bytes == Flatten(prog) IN
    [i \in (0..(Len(bytes) - 1)) \cup {16380, 16381} |->
        IF i = 16380 THEN 0 ELSE IF i = 16381 THEN 128 ELSE bytes[i + 1]]

\* Iterations of the run loop made in one run.
MaxSteps == 12

\* Stack pointers set with TXS before the stack is used: the reset value, both ends
\* of the page and the cell above the lower end.
SpBytes == {253, 0, 1, 255}

\* Bytes pushed with PHA: both ends of the range and of the two signs, and bytes
\* with the break bits set.
PushBytes == {0, 16, 48, 127, 128, 255}

\* Branch offsets: none, forward, back by one into the branch's own operand, and
\* the two ends of the range.
BranchOffsets == {0, 2, 255, 127, 128}

\* The eight branch opcodes: BPL BMI BVC BVS BCC BCS BNE BEQ.
BranchCodes == {16, 48, 80, 112, 144, 176, 208, 240}

\* Instructions that set the flag a branch tests: none (all clear after reset),
\* SEC, LDA #$00 (Zero), LDA #$80 (Negative), LDA #$7F; ADC #$7F (Overflow).
FlagSetups == {<<>>, <<<<56>>>>, <<<<169, 0>>>>, <<<<169, 128>>>>,
               <<<<169, 127>>, <<105, 127>>>>}

\* Targets of JMP and JSR for an instruction at 0x8000: its own operand (0x8001),
\* the next instruction (0x8003), further on in PRG-ROM, and RAM.
JumpTargets == {32769, 32771, 32784, 512}

\* Operand bytes <<low, high>> of the single instructions run for every opcode byte.
OperandPairs == {<<16, 2>>, <<255, 1>>}

\* LDX #sp; TXS; LDA #v; PHA; LDA #$55; PLA
PhaPlaPrograms ==
    { << <<162, sp>>, <<154>>, <<169, v>>, <<72>>, <<169, 85>>, <<104>> >>
      : sp \in SpBytes, v \in PushBytes }

\* LDA #v; PHA; PLP; PHP; PLA  and  LDA #v; PHA; PHA; PHA; RTI
StatusPrograms ==
    { << <<169, v>>, <<72>>, <<40>>, <<8>>, <<104>> >> : v \in PushBytes }
    \cup { << <<169, v>>, <<72>>, <<72>>, <<72>>, <<64>> >> : v \in PushBytes \ {255} }

\* The flag setup, then a branch with the offset.
BranchPrograms ==
    { setup \o << <<code, d>> >>
      : setup \in FlagSetups, code \in BranchCodes, d \in BranchOffsets }

\* JMP t, JSR t, and JMP ($8003) with t in the two bytes that follow it.
JumpPrograms ==
    { << <<code, t % 256, t \div 256>> >> : code \in {76, 32}, t \in JumpTargets }
    \cup { << <<108, 3, 128>>, <<t % 256, t \div 256>> >> : t \in JumpTargets }

\* LDX #sp; TXS; JSR $8008; NOP; BRK; and at 0x8008 a subroutine that ends in RTS:
\* RTS alone, NOP, PHA/PLA and PHP/PLP before it.
Subroutines == {<<<<96>>>>, <<<<234>>, <<96>>>>, <<<<72>>, <<104>>, <<96>>>>,
                <<<<8>>, <<40>>, <<96>>>>}

JsrRtsPrograms ==
    { << <<162, sp>>, <<154>>, <<32, 8, 128>>, <<234>>, <<0>> >> \o sub
      : sp \in SpBytes, sub \in Subroutines }

\* LDX #$04; LDY #$08; then one instruction of every opcode byte.
OpcodePrograms ==
    { << <<162, 4>>, <<160, 8>>, <<code>> \o operand >>
      : code \in Byte, operand \in OperandPairs }

\* LDA #$C0; TAX; INX; BRK (test_0xe8_5_ops_working_together), and a store to
\* RAM before the BRK: LDA #$C0; STA $10.
BrkPrograms ==
    { << <<169, 192>>, <<170>>, <<232>>, <<0>> >>,
      << <<169, 192>>, <<133, 16>>, <<0>> >> }

CpuPrograms ==
    PhaPlaPrograms \cup StatusPrograms \cup BranchPrograms \cup JumpPrograms
    \cup JsrRtsPrograms \cup OpcodePrograms \cup BrkPrograms

\* Operands of ADC and SBC under SpecAlu: the ends of the range and of the two
\* signs, small steps, and values with one bit set.
AluBytes == {0, 1, 2, 15, 16, 64, 85, 126, 127, 128, 129, 130, 170, 192, 254, 255}

\* Bank counts of the cartridges encoded: none, the two the cartridge invariants
\* allow for PRG, and one more.
PrgBankCounts == {0, 1, 2, 3}
ChrBankCounts == {0, 1, 2}

\* Mapper ids: both nibbles zero, one of them, both, and all bits.
MapperIds == {0, 3, 16, 79, 255}

\* A bank area of n bytes with its first and last byte marked.
Marked(n, first, last) ==
    [len |-> n, mem |-> [i \in (IF n = 0 THEN {} ELSE {0, n - 1}) |->
                            IF i = 0 THEN first ELSE last]]

Cartridges ==
    { [prg_rom |-> Marked(np * PRG_ROM_PAGE_SIZE, 169, 96),
       chr_rom |-> Marked(nc * CHR_ROM_PAGE_SIZE, 2, 3),
       mapper |-> m, screen_mirroring |-> mi]
      : np \in PrgBankCounts, nc \in ChrBankCounts, m \in MapperIds, mi \in Mirroring }

\* The 512 bytes of a trainer.
TrainerImage == Marked(512, 7, 9)

\* The 16 header bytes of an iNES 1.0 stream of cartridge c: the tag, the bank
\* counts, control byte 1 (mapper low nibble, four-screen, trainer, vertical) and
\* control byte 2 (mapper high nibble); vbit is the vertical bit of a four-screen
\* cartridge.
INesHeader(c, trainer, vbit) ==
    LET vertical == c.screen_mirroring = "VERTICAL"
                    \/ (c.screen_mirroring = "FOUR_SCREEN" /\ vbit)
        byte1 == (c.mapper % 16) * 16
                 + (IF c.screen_mirroring = "FOUR_SCREEN" THEN 8 ELSE 0)
                 + (IF trainer THEN 4 ELSE 0)
                 + (IF vertical THEN 1 ELSE 0)
        byte2 == (c.mapper \div 16) * 16
    IN [len |-> 16,
        mem |-> [i \in 0..15 |->
                    CASE i < 4 -> NES_TAG[i + 1]
                      [] i = NUM_16KB_ROM_BANKS -> c.prg_rom.len \div PRG_ROM_PAGE_SIZE
                      [] i = NUM_8KB_VROM_BANKS -> c.chr_rom.len \div CHR_ROM_PAGE_SIZE
                      [] i = NES_CONTROL_BYTE1 -> byte1
                      [] i = NES_CONTROL_BYTE2 -> byte2
                      [] OTHER -> 0]]

Encode(c, trainer, vbit) ==
    create_test_rom([header |-> INesHeader(c, trainer, vbit),
                     trainer |-> IF trainer THEN Some(TrainerImage) ELSE None,
                     prg_rom |-> c.prg_rom, chr_rom |-> c.chr_rom])

\* The first n bytes of a buffer, and the buffer with byte k set to v.
Truncate(raw, n) ==
    [len |-> n, mem |-> [i \in (DOMAIN raw.mem) \cap (0..(n - 1)) |-> raw.mem[i]]]

WithByte(raw, k, v) == [raw EXCEPT !.mem = Store(@, k, v)]

\* The stream of the parser's own test: two PRG banks, one CHR bank, mapper 3,
\* vertical mirroring; without and with a trainer.
TestCartridge ==
    [prg_rom |-> Marked(2 * PRG_ROM_PAGE_SIZE, 169, 96),
     chr_rom |-> Marked(CHR_ROM_PAGE_SIZE, 2, 3),
     mapper |-> 3, screen_mirroring |-> "VERTICAL"]

\* Lengths the test stream is cut to: inside the tag, inside the header, the
\* header alone, inside the trainer, inside PRG and one byte short of the whole.
CutLengths == {0, 1, 3, 4, 6, 7, 8, 15, 16, 17, 528, 32783, 40959, 41471}

\* Bytes put in place of a tag byte, and values of control byte 2: the version
\* bits alone and together, with mapper and reserved bits, and the reserved bits
\* alone.
WrongTagBytes == {0, 255}
Control2Bytes == {4, 8, 12, 252, 11, 3}

\* What is handed to Rom::new: `raw` the buffer, `cart` the cartridge it was
\* encoded from (None for a buffer that is not the encoding of one).
RomInputs ==
    { [raw |-> Encode(c, t, v), cart |-> Some(c)]
      : c \in Cartridges, t \in BOOLEAN, v \in BOOLEAN }
    \cup { [raw |-> Truncate(Encode(TestCartridge, t, FALSE), n), cart |-> None]
           : t \in BOOLEAN, n \in CutLengths }
    \cup { [raw |-> Truncate(WithByte(Encode(TestCartridge, FALSE, FALSE), k, v), n),
            cart |-> None]
           : k \in 0..3, v \in WrongTagBytes, n \in {2, 4, 7, 16, 40976} }
    \cup { [raw |-> Truncate(WithByte(Encode(TestCartridge, t, FALSE),
                                      NES_CONTROL_BYTE2, v), n),
            cart |-> None]
           : t \in BOOLEAN, v \in Control2Bytes \ {3}, n \in {7, 8, 16, 40976} }
    \cup { [raw |-> WithByte(Encode(TestCartridge, t, FALSE), NES_CONTROL_BYTE2, 3),
            cart |-> Some(TestCartridge)]
           : t \in BOOLEAN }

\* Programs run under the trace callback: LDX #$04; LDY #$08; then one instruction
\* of every opcode byte with operand bytes 0x10 0x02; the program of
\* test_format_trace (LDX #$01; DEX; DEY; BRK); and programs whose operand is a
\* device register: the status register after one address write (LDX #$21;
\* STX $2006; LDA $2002, and through the mirror 0x200A), the data port after an
\* address has been set (.. LDX #$00; STX $2006; LDA $2007, LDA $3FFF), the data
\* port through an index (LDX #$07; LDA $2000,X) and the gamepad (LDA $4016).
TracePrograms ==
    { << <<162, 4>>, <<160, 8>>, <<code, 16, 2>> >> : code \in Byte }
    \cup { << <<162, 1>>, <<202>>, <<136>>, <<0>> >> }
    \cup { << <<162, 33>>, <<142, 6, 32>>, <<173, lo, 32>>, <<0>> >> : lo \in {2, 10} }
    \cup { << <<162, 33>>, <<142, 6, 32>>, <<162, 0>>, <<142, 6, 32>>,
              <<173, lo, hi>>, <<173, lo, hi>>, <<0>> >>
           : lo \in {7}, hi \in {32} }
    \cup { << <<162, 33>>, <<142, 6, 32>>, <<162, 0>>, <<142, 6, 32>>,
              <<173, 255, 63>>, <<0>> >> }
    \cup { << <<162, 7>>, <<189, 0, 32>>, <<0>> >> }
    \cup { << <<173, 22, 64>>, <<173, 22, 64>>, <<0>> >> }

\* Bus calls made before and between OAM DMA writes under SpecDma.
MaxDmaOps == 3

\* Writes that come before an OAM DMA, as <<address, byte>>: RAM cell 0x010, the
\* OAM address, and one byte of the PPU address latch.
DmaSetupWrites == {<<16, 102>>, <<PPU_REG_OAM_ADDRESS, 16>>, <<PPU_REG_ADDRESS, 33>>}

\* Reads that come before an OAM DMA: the gamepad.
DmaSetupReads == {JOYPAD_1}

\* Source pages of the DMA: RAM (0x00, 0x07), the PPU registers and their last
\* mirror (0x20, 0x3F), the I/O page (0x40) and PRG-ROM (0x80).
DmaPages == {0, 7, 32, 63, 64, 128}

\* Colours of SYSTEM_PALETTE: entries 0x00, 0x01 and 0x20.
Colours == {<<128, 128, 128>>, <<0, 61, 166>>, <<255, 255, 255>>}

\* Pixels the background pass has drawn before the sprites: the second pixel of
\* the second row, and the first pixel of the last row.
BackgroundPixels == {<<1, 1>>, <<0, 239>>}

\* Arguments of set_pixel: the first and last column and row of the frame, and the
\* first and the largest coordinate past them that a sprite reaches (255 + 7).
PixelXs == {0, 1, 255, 256, 257, 262}
PixelYs == {0, 1, 238, 239, 240, 262}

\* Sprites: OAM x and y at the left and top edge, with the sprite partly and almost
\* wholly past the right and the bottom edge, and the four flips.
SpriteXs == {0, 250, 255}
SpriteYs == {0, 236, 255}
Sprites ==
    [tx : SpriteXs, ty : SpriteYs, flip_horizontal : BOOLEAN, flip_vertical : BOOLEAN]

\* A tile whose 64 pixels all have value 1, 2 or 3: plane 0 is 0xFF in every row,
\* plane 1 is 0x0F in the rows 4 .. 7.
SpriteTile == [i \in 0..15 |-> IF i < 8 THEN 255 ELSE IF i < 12 THEN 0 ELSE 15]

\* The colours of the sprite palette entries 1, 2, 3.
SpriteColours == <<<<0, 61, 166>>, <<255, 255, 255>>, <<128, 128, 128>>>>

NoOp == [name |-> "new", arg |-> 0, ret |-> 0]

(* History: dots handed to the PPU, frames it reported, times the scanline  *)
(* counter reached 241, vsync callbacks made, opcodes fetched, base cycles *)
(* of the instructions executed, address writes since construction or the *)
(* last status read (mod 2), whether that read came between the two       *)
(* writes of a pair, PPUDATA reads and writes made, the PPU address of the *)
(* last PPUDATA write (-1: none), the gamepad reads made in a row          *)
(* (counted up to MaxPadReads), and the place in the gamepad's strobe      *)
(* sequence: -2 before any write of 0x4016 with bit 0 set, -1 after such a  *)
(* write, and from the write with bit 0 clear that follows it the number   *)
(* of reads made since (counted up to MaxPadReads). pha is <<A, SP>> as    *)
(* the last PHA found them while nothing has touched the stack or RAM      *)
(* since, and jsr is <<address, SP, depth>> of the last JSR with the       *)
(* pushes less the pulls made since, while the subroutine has pulled no    *)
(* more than it pushed and stored nothing; <<>> otherwise. plain is the    *)
(* machine of the same program run without a callback, where one is kept.  *)
NoHist == [dots |-> 0, frames |-> 0, lines241 |-> 0, vsync_calls |-> 0,
           fetches |-> 0, exec_cycles |-> 0, addr_writes |-> 0, mid_reset |-> FALSE,
           data_ops |-> 0, write_addr |-> -1, pad_reads |-> 0, pad_seq |-> -2,
           pha |-> <<>>, jsr |-> <<>>, plain |-> None]

----------------------------------------------------------------------------
(* A PPU on its own (NesPPU::new_empty_rom and the calls of its unit tests) *)

Init ==
    /\ ppu = NesPPU_new
    /\ bus = Bus_new(<<>>)
    /\ cpu = CPU_new
    /\ run_state = "idle"
    /\ panicked = FALSE
    /\ op = NoOp
    /\ hist = NoHist

PpuTick ==
    /\ ~panicked
    /\ hist.frames < MaxFrames
    /\ \E c \in TickDots :
         \E r \in {tick(ppu, c)} :
         /\ ppu' = r.ppu
         /\ panicked' = r.panic
         /\ op' = [name |-> "tick", arg |-> c, ret |-> r.ret]
         /\ hist' = [hist EXCEPT !.dots = @ + c,
                                 !.frames = @ + (IF r.ret THEN 1 ELSE 0)]
    /\ UNCHANGED <<bus, cpu, run_state>>

PpuWriteControl ==
    /\ ~panicked
    /\ \E data \in ControlBytes :
         /\ ppu' = write_control(ppu, data)
         /\ op' = [name |-> "write_control", arg |-> data, ret |-> 0]
    /\ UNCHANGED <<bus, cpu, run_state, panicked, hist>>

PpuReadStatus ==
    /\ ~panicked
    /\ \E r \in {read_status(ppu)} :
         /\ ppu' = r.ppu
         /\ op' = [name |-> "read_status", arg |-> 0, ret |-> r.ret]
    /\ hist' = [hist EXCEPT !.addr_writes = 0, !.mid_reset = (hist.addr_writes = 1)]
    /\ UNCHANGED <<bus, cpu, run_state, panicked>>

PpuPollNmi ==
    /\ ~panicked
    /\ LET r == NesPPU_poll_nmi(ppu) IN
         /\ ppu' = r.ppu
         /\ op' = [name |-> "poll_nmi", arg |-> 0, ret |-> r.ret]
    /\ UNCHANGED <<bus, cpu, run_state, panicked, hist>>

\* ppu.status.set_vblank_status(true), as test_reset_vblank calls it.
PpuSetVblank ==
    /\ ~panicked
    /\ ppu' = [ppu EXCEPT !.status = set_vblank_status(ppu.status, TRUE)]
    /\ op' = [name |-> "set_vblank_status", arg |-> 1, ret |-> 0]
    /\ UNCHANGED <<bus, cpu, run_state, panicked, hist>>

PpuWriteAddress ==
    /\ ~panicked
    /\ \E data \in LatchBytes :
         /\ ppu' = write_address(ppu, data)
         /\ op' = [name |-> "write_address", arg |-> data, ret |-> 0]
    /\ hist' = [hist EXCEPT !.addr_writes = (@ + 1) % 2]
    /\ UNCHANGED <<bus, cpu, run_state, panicked>>

PpuWriteScroll ==
    /\ ~panicked
    /\ \E data \in LatchBytes :
         /\ ppu' = write_scroll(ppu, data)
         /\ op' = [name |-> "write_scroll", arg |-> data, ret |-> 0]
    /\ UNCHANGED <<bus, cpu, run_state, panicked, hist>>

NextPPU == PpuTick \/ PpuWriteControl \/ PpuReadStatus \/ PpuPollNmi \/ PpuSetVblank

SpecPPU == Init /\ [][NextPPU]_vars

NextLatch == PpuWriteAddress \/ PpuWriteScroll \/ PpuReadStatus

SpecLatch == Init /\ [][NextLatch]_vars

----------------------------------------------------------------------------
(* The address register of a PPU: AddressRegister::update (through          *)
(* write_address) and AddressRegister::increment                            *)

AddrIncrement ==
    /\ ~panicked
    /\ \E value \in Strides :
         /\ ppu' = [ppu EXCEPT !.address = AddressRegister_increment(ppu.address, value)]
         /\ op' = [name |-> "increment", arg |-> value, ret |-> 0]
    /\ UNCHANGED <<bus, cpu, run_state, panicked, hist>>

NextAddr == PpuWriteAddress \/ AddrIncrement

SpecAddr == Init /\ [][NextAddr]_vars

----------------------------------------------------------------------------
(* The PPUDATA port of the PPU of a cartridge (NesPPU::new with its CHR     *)
(* bank and mirroring): write_address, write_control, read_data, write_data *)

InitData ==
    /\ \E mirroring \in Mirroring : ppu = NesPPU_new_rom(ChrImage, mirroring)
    /\ bus = Bus_new(<<>>)
    /\ cpu = CPU_new
    /\ run_state = "idle"
    /\ panicked = FALSE
    /\ op = NoOp
    /\ hist = NoHist

DataWriteAddress ==
    /\ ~panicked
    /\ \E data \in (IF ppu.address.is_hi THEN DataHiBytes ELSE DataLoBytes) :
         /\ ppu' = write_address(ppu, data)
         /\ op' = [name |-> "write_address", arg |-> data, ret |-> 0]
    /\ hist' = [hist EXCEPT !.addr_writes = (@ + 1) % 2]
    /\ UNCHANGED <<bus, cpu, run_state, panicked>>

DataWriteControl ==
    /\ ~panicked
    /\ \E data \in DataControlBytes :
         /\ ppu' = write_control(ppu, data)
         /\ op' = [name |-> "write_control", arg |-> data, ret |-> 0]
    /\ UNCHANGED <<bus, cpu, run_state, panicked, hist>>

DataRead ==
    /\ ~panicked
    /\ hist.data_ops < MaxDataOps
    /\ \E r \in {read_data(ppu)} :
         /\ ppu' = r.ppu
         /\ panicked' = r.panic
         /\ op' = [name |-> "read_data", arg |-> AddressRegister_get(ppu.address),
                   ret |-> r.ret]
    /\ hist' = [hist EXCEPT !.data_ops = @ + 1]
    /\ UNCHANGED <<bus, cpu, run_state>>

DataWrite ==
    /\ ~panicked
    /\ hist.data_ops < MaxDataOps
    /\ \E data \in DataBytes :
         \E r \in {write_data(ppu, data)} :
         /\ ppu' = r.ppu
         /\ panicked' = r.panic
         /\ op' = [name |-> "write_data", arg |-> AddressRegister_get(ppu.address),
                   ret |-> data]
    /\ hist' = [hist EXCEPT !.data_ops = @ + 1,
                            !.write_addr = AddressRegister_get(ppu.address)]
    /\ UNCHANGED <<bus, cpu, run_state>>

NextData == DataWriteAddress \/ DataWriteControl \/ DataRead \/ DataWrite

SpecData == InitData /\ [][NextData]_vars

----------------------------------------------------------------------------
(* A Bus and the PPU it owns, driven through the Bus methods *)

BusTick ==
    /\ ~panicked
    /\ hist.frames < MaxFrames
    /\ \E c \in BusTickCycles :
         \E r \in {Bus_tick(bus, ppu, c)} :
         /\ bus' = r.bus
         /\ ppu' = r.ppu
         /\ panicked' = r.panic
         /\ op' = [name |-> "bus_tick", arg |-> c, ret |-> r.vsync]
         /\ hist' = [hist EXCEPT
                !.dots = @ + c * 3,
                !.frames = @ + (IF ppu.scanline # 0 /\ r.ppu.scanline = 0 THEN 1 ELSE 0),
                !.lines241 = @ + (IF ppu.scanline # VBlankScanline
                                     /\ r.ppu.scanline = VBlankScanline THEN 1 ELSE 0),
                !.vsync_calls = @ + (IF r.vsync THEN 1 ELSE 0)]
    /\ UNCHANGED <<cpu, run_state>>

BusWrite ==
    /\ ~panicked
    /\ \E addr \in BusWriteAddrs, data \in ControlBytes :
         \E r \in {memory_write_u8(bus, ppu, addr, data)} :
         /\ bus' = r.bus
         /\ ppu' = r.ppu
         /\ panicked' = r.panic
         /\ op' = [name |-> "memory_write_u8", arg |-> <<addr, data>>, ret |-> 0]
    /\ UNCHANGED <<cpu, run_state, hist>>

BusRead ==
    /\ ~panicked
    /\ \E addr \in BusReadAddrs :
         \E r \in {memory_read_u8(bus, ppu, addr)} :
         /\ bus' = r.bus
         /\ ppu' = r.ppu
         /\ panicked' = r.panic
         /\ op' = [name |-> "memory_read_u8", arg |-> addr, ret |-> r.ret]
    /\ UNCHANGED <<cpu, run_state, hist>>

BusPollNmi ==
    /\ ~panicked
    /\ LET r == Bus_poll_nmi(ppu) IN
         /\ ppu' = r.ppu
         /\ op' = [name |-> "bus_poll_nmi", arg |-> 0, ret |-> r.ret]
    /\ UNCHANGED <<bus, cpu, run_state, panicked, hist>>

Next == BusTick \/ BusWrite \/ BusRead \/ BusPollNmi

Spec == Init /\ [][Next]_vars

----------------------------------------------------------------------------
(* The memory map of a Bus made with Bus::new_with_rom: memory_write_u8 and *)
(* memory_read_u8 on RAM, PRG-ROM, the OAM registers and the status register *)

InitMem ==
    /\ ppu = NesPPU_new_rom(ChrImage, "HORIZONTAL")
    /\ bus = Bus_new(RomImage)
    /\ cpu = CPU_new
    /\ run_state = "idle"
    /\ panicked = FALSE
    /\ op = NoOp
    /\ hist = NoHist

MemWrite ==
    /\ ~panicked
    /\ \E w \in MemWrites :
         \E r \in {memory_write_u8(bus, ppu, w[1], w[2])} :
         /\ bus' = r.bus
         /\ ppu' = r.ppu
         /\ panicked' = r.panic
         /\ op' = [name |-> "memory_write_u8", arg |-> w, ret |-> 0]
    /\ UNCHANGED <<cpu, run_state, hist>>

MemRead ==
    /\ ~panicked
    /\ \E addr \in MemReads :
         \E r \in {memory_read_u8(bus, ppu, addr)} :
         /\ bus' = r.bus
         /\ ppu' = r.ppu
         /\ panicked' = r.panic
         /\ op' = [name |-> "memory_read_u8", arg |-> addr, ret |-> r.ret]
    /\ UNCHANGED <<cpu, run_state, hist>>

NextMem == MemWrite \/ MemRead

SpecMem == InitMem /\ [][NextMem]_vars

----------------------------------------------------------------------------
(* The gamepad of a Bus: writes and reads of 0x4016, and Joypad::set_status *)
(* as its unit tests and the key events of main call it                     *)

PadWrite ==
    /\ ~panicked
    /\ \E data \in PadBytes :
         \E r \in {memory_write_u8(bus, ppu, JOYPAD_1, data)} :
         /\ bus' = r.bus
         /\ ppu' = r.ppu
         /\ panicked' = r.panic
         /\ op' = [name |-> "memory_write_u8", arg |-> <<JOYPAD_1, data>>, ret |-> 0]
         /\ hist' = [hist EXCEPT !.pad_reads = 0,
                                 !.pad_seq = IF data % 2 = 1 THEN -1
                                             ELSE IF @ = -1 THEN 0 ELSE @]
    /\ UNCHANGED <<cpu, run_state>>

PadRead ==
    /\ ~panicked
    /\ \E r \in {memory_read_u8(bus, ppu, JOYPAD_1)} :
         /\ bus' = r.bus
         /\ ppu' = r.ppu
         /\ panicked' = r.panic
         /\ op' = [name |-> "memory_read_u8", arg |-> JOYPAD_1, ret |-> r.ret]
    /\ hist' = [hist EXCEPT !.pad_reads = IF @ < MaxPadReads THEN @ + 1 ELSE @,
                            !.pad_seq = IF @ >= 0 /\ @ < MaxPadReads THEN @ + 1 ELSE @]
    /\ UNCHANGED <<cpu, run_state>>

PadSetStatus ==
    /\ ~panicked
    /\ \E button \in PadButtons, pressed \in BOOLEAN :
         /\ bus' = [bus EXCEPT !.joypad_1 = Joypad_set_status(bus.joypad_1, button, pressed)]
         /\ op' = [name |-> "set_status", arg |-> <<button, pressed>>, ret |-> 0]
    /\ hist' = [hist EXCEPT !.pad_reads = 0]
    /\ UNCHANGED <<ppu, cpu, run_state, panicked>>

NextPad == PadWrite \/ PadRead \/ PadSetStatus

SpecPad == Init /\ [][NextPad]_vars

----------------------------------------------------------------------------
(* The CPU on its Bus: main's CPU::new, reset, run *)

InitRun ==
    /\ ppu = NesPPU_new
    /\ \E prog \in Programs : bus = Bus_new(PrgImage(prog))
    /\ cpu = CPU_reset(CPU_new, bus, ppu)
    /\ run_state = "running"
    /\ panicked = FALSE
    /\ op = NoOp
    /\ hist = NoHist

CpuStep ==
    /\ ~panicked
    /\ run_state = "running"
    /\ hist.fetches < MaxSteps
    /\ \E r \in {run_step(cpu, bus, ppu)} :
         /\ cpu' = r.cpu
         /\ bus' = r.bus
         /\ ppu' = r.ppu
         /\ panicked' = r.panic
         /\ run_state' = IF r.returned THEN "returned" ELSE "running"
         /\ op' = [name |-> "run_step", arg |-> r.code,
                   ret |-> [polled |-> r.polled, ticked |-> r.ticked,
                            nmi_pending |-> is_some(ppu.nmi_interrupt),
                            unknown |-> r.unknown, pc |-> cpu.reg_pc]]
         /\ hist' = [hist EXCEPT
                !.fetches = @ + 1,
                !.exec_cycles = @ + (IF r.panic \/ r.returned THEN 0
                                     ELSE OpCode(r.code).cycles),
                !.pha = IF r.panic THEN <<>>
                        ELSE IF r.code = 72 THEN <<cpu.reg_a, cpu.reg_sp>>
                        ELSE IF r.code \in {8, 104, 40, 32, 96, 64, 154}
                                \/ r.bus.cpu_vram # bus.cpu_vram
                        THEN <<>>
                        ELSE @,
                !.jsr = IF r.panic THEN <<>>
                        ELSE IF r.code = 32 THEN <<cpu.reg_pc, cpu.reg_sp, 0>>
                        ELSE IF @ = <<>> THEN @
                        ELSE IF r.code \in {72, 8} THEN <<@[1], @[2], @[3] + 1>>
                        ELSE IF r.code \in {104, 40} /\ @[3] > 0
                        THEN <<@[1], @[2], @[3] - 1>>
                        ELSE IF r.code \in {104, 40, 96, 64, 154}
                                \/ r.bus.cpu_vram # bus.cpu_vram
                        THEN <<>>
                        ELSE @]

NextRun == CpuStep

SpecRun == InitRun /\ [][NextRun]_vars

----------------------------------------------------------------------------
(* The CPU running short programs from reset: the stack, the status         *)
(* register, branches, jumps, subroutines, and one instruction of every    *)
(* opcode byte                                                              *)

InitCpu ==
    /\ ppu = NesPPU_new
    /\ \E prog \in CpuPrograms : bus = Bus_new(PrgImage(prog))
    /\ cpu = CPU_reset(CPU_new, bus, ppu)
    /\ run_state = "running"
    /\ panicked = FALSE
    /\ op = NoOp
    /\ hist = NoHist

NextCpu == CpuStep

SpecCpu == InitCpu /\ [][NextCpu]_vars

----------------------------------------------------------------------------
(* The cartridge parser on a byte buffer: main's read_rom_file *)

InitRom ==
    /\ ppu = NesPPU_new
    /\ bus = Bus_new(<<>>)
    /\ cpu = CPU_new
    /\ run_state = "idle"
    /\ panicked = FALSE
    /\ \E input \in RomInputs : op = [name |-> "read_rom_file", arg |-> input, ret |-> 0]
    /\ hist = NoHist

RomNew ==
    /\ ~panicked
    /\ op.name = "read_rom_file"
    /\ \E r \in {Rom_new(op.arg.raw)} :
         /\ op' = [name |-> "Rom_new", arg |-> op.arg, ret |-> r]
         /\ panicked' = r.panic
    /\ UNCHANGED <<ppu, bus, cpu, run_state, hist>>

NextRom == RomNew

SpecRom == InitRom /\ [][NextRom]_vars

----------------------------------------------------------------------------
(* The CPU run with trace as the callback (main, mode "nestest": reset,     *)
(* reg_pc = 0xC000, run_with_callback(|cpu| println!("{}",                  *)
(* trace::trace(cpu)))); with one PRG bank 0xC000 holds the bytes of 0x8000. *)
(* hist.plain is the same program run from there by CPU::run, whose        *)
(* callback does nothing.                                                   *)

InitTrace ==
    /\ ppu = NesPPU_new
    /\ \E prog \in TracePrograms : bus = Bus_new(PrgImage(prog))
    /\ cpu = [CPU_reset(CPU_new, bus, ppu) EXCEPT !.reg_pc = 49152]
    /\ run_state = "running"
    /\ panicked = FALSE
    /\ op = NoOp
    /\ hist = [NoHist EXCEPT !.plain = Some([cpu |-> cpu, bus |-> bus, ppu |-> ppu,
                                             panic |-> FALSE, returned |-> FALSE])]

\* One iteration of the loop run without the callback, on the machine m.
plain_step(m) ==
    IF m.panic \/ m.returned THEN m
    ELSE Only({ [cpu |-> r.cpu, bus |-> r.bus, ppu |-> r.ppu, panic |-> r.panic,
                 returned |-> r.returned]
                : r \in {run_step(m.cpu, m.bus, m.ppu)} })

TraceStep ==
    /\ ~panicked
    /\ run_state = "running"
    /\ hist.fetches < MaxSteps
    /\ \E t \in {trace(cpu, bus, ppu)} :
         /\ \E r \in {IF t.panic
                      THEN [cpu |-> cpu, bus |-> t.bus, ppu |-> t.ppu, panic |-> TRUE,
                            returned |-> FALSE]
                      ELSE run_step(cpu, t.bus, t.ppu)} :
              /\ cpu' = r.cpu
              /\ bus' = r.bus
              /\ ppu' = r.ppu
              /\ panicked' = r.panic
              /\ run_state' = IF r.returned THEN "returned" ELSE "running"
         /\ op' = [name |-> "trace", arg |-> t.code,
                   ret |-> [line |-> t.line,
                            traced |-> [bus |-> t.bus, ppu |-> t.ppu, panic |-> t.panic],
                            pc |-> cpu.reg_pc]]
    /\ hist' = [hist EXCEPT !.fetches = @ + 1,
                            !.plain = Some(plain_step(@[1]))]

NextTrace == TraceStep

SpecTrace == InitTrace /\ [][NextTrace]_vars

----------------------------------------------------------------------------
(* OAM DMA through the Bus: writes of 0x4014 among other bus calls *)

DmaSetupWrite ==
    /\ ~panicked
    /\ hist.data_ops < MaxDmaOps
    /\ \E w \in DmaSetupWrites :
         \E r \in {memory_write_u8(bus, ppu, w[1], w[2])} :
         /\ bus' = r.bus
         /\ ppu' = r.ppu
         /\ panicked' = r.panic
         /\ op' = [name |-> "memory_write_u8", arg |-> w, ret |-> 0]
    /\ hist' = [hist EXCEPT !.data_ops = @ + 1]
    /\ UNCHANGED <<cpu, run_state>>

DmaSetupRead ==
    /\ ~panicked
    /\ hist.data_ops < MaxDmaOps
    /\ \E addr \in DmaSetupReads :
         \E r \in {memory_read_u8(bus, ppu, addr)} :
         /\ bus' = r.bus
         /\ ppu' = r.ppu
         /\ panicked' = r.panic
         /\ op' = [name |-> "memory_read_u8", arg |-> addr, ret |-> r.ret]
    /\ hist' = [hist EXCEPT !.data_ops = @ + 1]
    /\ UNCHANGED <<cpu, run_state>>

DmaWrite ==
    /\ ~panicked
    /\ hist.data_ops < MaxDmaOps
    /\ \E page \in DmaPages :
         \E r \in {memory_write_u8(bus, ppu, PPU_REG_OAM_DMA, page)} :
         /\ bus' = r.bus
         /\ ppu' = r.ppu
         /\ panicked' = r.panic
         /\ op' = [name |-> "memory_write_u8", arg |-> <<PPU_REG_OAM_DMA, page>>,
                   ret |-> 0]
    /\ hist' = [hist EXCEPT !.data_ops = @ + 1]
    /\ UNCHANGED <<cpu, run_state>>

NextDma == DmaSetupWrite \/ DmaSetupRead \/ DmaWrite

SpecDma == InitMem /\ [][NextDma]_vars

----------------------------------------------------------------------------
(* A Frame drawn on: Frame::new, a pixel of the background, then set_pixel  *)
(* or the pixels of one sprite. The frame is the value the last operation  *)
(* left (op.ret).                                                           *)

InitFrame ==
    /\ ppu = NesPPU_new
    /\ bus = Bus_new(<<>>)
    /\ cpu = CPU_new
    /\ run_state = "idle"
    /\ panicked = FALSE
    /\ op = [name |-> "Frame_new", arg |-> <<>>, ret |-> Frame_new]
    /\ hist = NoHist

FrameBackground ==
    /\ op.name = "Frame_new"
    /\ \E xy \in BackgroundPixels, rgb \in Colours :
         op' = [name |-> "background", arg |-> <<xy[1], xy[2], rgb>>,
                ret |-> set_pixel(op.ret, xy[1], xy[2], rgb)]
    /\ UNCHANGED <<ppu, bus, cpu, run_state, panicked, hist>>

FrameSetPixel ==
    /\ op.name \in {"Frame_new", "background"}
    /\ \E x \in PixelXs, y \in PixelYs, rgb \in Colours :
         op' = [name |-> "set_pixel", arg |-> <<x, y, rgb>>,
                ret |-> set_pixel(op.ret, x, y, rgb)]
    /\ UNCHANGED <<ppu, bus, cpu, run_state, panicked, hist>>

FrameDrawSprite ==
    /\ op.name \in {"Frame_new", "background"}
    /\ \E s \in Sprites :
         op' = [name |-> "draw_sprite", arg |-> s,
                ret |-> draw_sprite(op.ret, s, SpriteTile, SpriteColours, 0)]
    /\ UNCHANGED <<ppu, bus, cpu, run_state, panicked, hist>>

NextFrame == FrameBackground \/ FrameSetPixel \/ FrameDrawSprite

SpecFrame == InitFrame /\ [][NextFrame]_vars

----------------------------------------------------------------------------
(* The accumulator arithmetic of the CPU: CPU::adc and CPU::sbc on the     *)
(* operand byte they read, from a CPU as CPU::new leaves it                 *)

AluAdc ==
    /\ ~panicked
    /\ \E value \in AluBytes :
         /\ cpu' = add_accumulator(cpu, value)
         /\ op' = [name |-> "adc", arg |-> value, ret |-> 0]
    /\ UNCHANGED <<ppu, bus, run_state, panicked, hist>>

AluSbc ==
    /\ ~panicked
    /\ \E value0 \in AluBytes :
         /\ cpu' = add_accumulator(cpu, sbc_value(value0))
         /\ op' = [name |-> "sbc", arg |-> value0, ret |-> 0]
    /\ UNCHANGED <<ppu, bus, run_state, panicked, hist>>

NextAlu == AluAdc \/ AluSbc

SpecAlu == Init /\ [][NextAlu]_vars

----------------------------------------------------------------------------
(* Properties *)

\* C1: in every iteration of the run loop the NMI is polled (and a pending one
\* serviced) before the opcode is fetched: no opcode is fetched without the poll,
\* nor while an NMI is pending.
C1_NmiPolledBeforeFetch ==
    op.name = "run_step" => (op.ret.polled /\ ~op.ret.nmi_pending)

\* C2: after every instruction of the run loop the bus cycle counter equals the sum
\* of the base cycles of the instructions executed, and the PPU has been handed 3
\* times that many dots.
C2_CyclesCharged ==
    /\ bus.cycles = hist.exec_cycles
    /\ hist.dots = 3 * hist.exec_cycles

\* C3: the number of vsync callbacks made by Bus::tick equals the number of times
\* the scanline counter has reached 241.
C3_VsyncOncePerFrame ==
    hist.vsync_calls = hist.lines241

\* C4: a tick that advances the scanline counter to 241 leaves the VBlank bit of
\* the status register set, whatever the control register holds.
C4_VblankAt241 ==
    [][(op'.name = "tick" /\ ppu.scanline # VBlankScanline
                          /\ ppu'.scanline = VBlankScanline)
        => is_in_vblank(ppu'.status)]_vars

\* C5: a tick that advances the scanline counter to 241 with generate-NMI set
\* returns normally and leaves a pending NMI, which the next poll returns.
C5_NmiAt241 ==
    [][(op'.name = "tick" /\ ppu.scanline # VBlankScanline
                          /\ ppu'.scanline = VBlankScanline
                          /\ generate_vblank_nmi(ppu.control))
        => (~panicked' /\ NesPPU_poll_nmi(ppu').ret = Some(1))]_vars

\* C6: a tick returns true exactly when it advances the scanline counter to 262
\* (from line 261, the dot counter reaching 341); that tick leaves scanline 0 and
\* VBlank clear; and the frames reported equal the dots handed over divided by
\* 341 * 262.
C6_FrameComplete ==
    [][(op'.name = "tick" /\ ~panicked')
        => /\ op'.ret = (ppu.scanline = ScanlinesPerFrame - 1
                         /\ ppu.cycles + op'.arg >= DotsPerScanline)
           /\ (op'.ret => ppu'.scanline = 0 /\ ~is_in_vblank(ppu'.status))
           /\ hist'.frames = hist'.dots \div FrameDots]_vars

\* C6 witness: a tick has just reported the first complete frame.
C6_Witness ==
    op.name = "tick" /\ op.ret = TRUE /\ hist.frames = 1 /\ ppu.scanline = 0

\* C7: after every tick the dot counter is within 0..340 and the scanline counter
\* within 0..261.
C7_CountersInRange ==
    /\ ppu.cycles \in 0..(DotsPerScanline - 1)
    /\ ppu.scanline \in 0..(ScanlinesPerFrame - 1)

\* C7 witness: a tick of 255 dots has brought the PPU to the last scanline.
C7_Witness ==
    op.name = "tick" /\ op.arg = 255 /\ ppu.scanline = ScanlinesPerFrame - 1

\* C8: a control write stores the byte, sets a pending NMI when the previous control
\* had generate-NMI clear, the new one has it set and VBlank is high, and leaves the
\* pending NMI as it was in every other case.
C8_ControlWriteNmi ==
    [][op'.name = "write_control"
        => /\ ppu'.control = op'.arg
           /\ IF ~generate_vblank_nmi(ppu.control) /\ generate_vblank_nmi(op'.arg)
                 /\ is_in_vblank(ppu.status)
              THEN ppu'.nmi_interrupt = Some(1)
              ELSE ppu'.nmi_interrupt = ppu.nmi_interrupt]_vars

\* C8 witness: a control write during VBlank has raised the NMI.
C8_Witness ==
    /\ op.name = "write_control" /\ generate_vblank_nmi(op.arg)
    /\ is_in_vblank(ppu.status) /\ ppu.nmi_interrupt = Some(1)

\* C9: a status read returns the status byte as it was and leaves VBlank clear; the
\* VBlank bit rises only in a tick or an explicit set, so a second read with neither
\* in between returns bit 7 clear.
C9_StatusRead ==
    [][/\ op'.name = "read_status"
            => /\ op'.ret = ppu.status
               /\ ~is_in_vblank(ppu'.status)
               /\ (op.name = "read_status" => ~Bit(op'.ret, 7))
       /\ (~is_in_vblank(ppu.status) /\ is_in_vblank(ppu'.status))
            => op'.name \in {"tick", "set_vblank_status"}]_vars

\* C9 witness: a status read has returned bit 7 set and left VBlank clear.
C9_Witness ==
    op.name = "read_status" /\ Bit(op.ret, 7) /\ ~is_in_vblank(ppu.status)

\* C10: address writes land in hi, lo, hi, lo, ... counted from construction or from
\* the last status read (so the first write after a status read lands in hi), and the
\* first scroll write after a status read lands in x.
C10_LatchOrder ==
    [][/\ op'.name = "write_address"
            => IF hist.addr_writes = 0
               THEN ppu'.address.value = <<op'.arg % 64, ppu.address.value[2]>>
               ELSE ppu'.address.value = <<ppu.address.value[1], op'.arg>>
       /\ (op.name = "read_status" /\ op'.name = "write_address")
            => ppu'.address.value = <<op'.arg % 64, ppu.address.value[2]>>
       /\ (op.name = "read_status" /\ op'.name = "write_scroll")
            => /\ ppu'.scroll.scroll_x = op'.arg
               /\ ppu'.scroll.scroll_y = ppu.scroll.scroll_y]_vars

\* C10 witness: the first address write after a status read that came between the two
\* writes of a pair has landed in hi.
C10_Witness ==
    /\ op.name = "write_address" /\ hist.addr_writes = 1 /\ hist.mid_reset
    /\ ppu.address.value[1] = op.arg % 64
    /\ ppu.address.value[2] # op.arg

\* C11: the combined PPU address never exceeds 0x3FFF: an address write leaves the
\* 16-bit value with the written byte in place, masked to 14 bits (0x63 then 0x05
\* gives 0x2305), and an increment by 1 or 32 leaves the sum modulo 0x4000, so an
\* increment past 0x3FFF wraps to the low addresses.
C11_AddressMasked ==
    [][/\ AddressRegister_get(ppu'.address) <= 16383
       /\ op'.name = "write_address"
            => AddressRegister_get(ppu'.address)
               = (IF ppu.address.is_hi
                  THEN op'.arg * 256 + ppu.address.value[2]
                  ELSE ppu.address.value[1] * 256 + op'.arg) % 16384
       /\ (op'.name = "write_address" /\ op'.arg = 5 /\ ~ppu.address.is_hi
           /\ op.name = "write_address" /\ op.arg = 99)
            => AddressRegister_get(ppu'.address) = 8965
       /\ op'.name = "increment"
            => AddressRegister_get(ppu'.address)
               = (AddressRegister_get(ppu.address) + op'.arg) % 16384]_vars

\* C11 witness: an increment by 32 has carried the address past 0x3FFF and left it
\* below 32.
C11_Witness ==
    op.name = "increment" /\ op.arg = 32 /\ AddressRegister_get(ppu.address) < 32

\* C12: a PPUDATA read at an address in 0x0000-0x2FFF that returns, returns the read
\* buffer as it was, leaves in the buffer the byte stored at the address the read
\* started from (CHR byte, or the nametable cell of the mirroring table), and advances
\* the address by the control stride; so a read that follows a read returns the byte
\* at the address of the earlier one.
C12_BufferedRead ==
    [][(op'.name = "read_data" /\ op'.arg <= PPU_VRAM_1ST_END /\ ~panicked')
        => LET stored(a) ==
                   IF a <= PPU_CHR_ROM_END
                   THEN Cell(ppu.chr_rom.mem, a)
                   ELSE LET table == (a - PPU_VRAM) \div 1024
                            bank == CASE ppu.mirroring = "HORIZONTAL" -> table \div 2
                                      [] ppu.mirroring = "VERTICAL" -> table % 2
                                      [] OTHER -> table
                        IN  Cell(ppu.vram, bank * 1024 + (a % 1024))
           IN  /\ op'.ret = ppu.internal_data_buffer
               /\ ppu'.internal_data_buffer = stored(op'.arg)
               /\ AddressRegister_get(ppu'.address)
                    = op'.arg + vram_address_increment(ppu.control)
               /\ (op.name = "read_data" /\ op.arg <= PPU_VRAM_1ST_END)
                    => op'.ret = stored(op.arg)]_vars

\* C12 witness: the second of two reads in a row, with stride 32, has returned CHR
\* byte 0 and left CHR byte 32 in the buffer.
C12_Witness ==
    /\ op.name = "read_data" /\ op.arg = 32 /\ op.ret = 17
    /\ ppu.internal_data_buffer = 49
    /\ hist.data_ops = 2
    /\ AddressRegister_get(ppu.address) = 64

\* C13: a PPUDATA read at a palette address returns the palette byte, and leaves in
\* the read buffer the nametable byte behind the palette address (the cell of
\* address - 0x1000 under the mirroring table).
C13_PaletteRead ==
    [][(op'.name = "read_data" /\ op'.arg >= PPU_PALETTE_TABLE /\ ~panicked')
        => LET index == IF op'.arg \in {16144, 16148, 16152, 16156}
                        THEN op'.arg - 16 - PPU_PALETTE_TABLE
                        ELSE op'.arg - PPU_PALETTE_TABLE
               table == (op'.arg - 4096 - PPU_VRAM) \div 1024
               bank == CASE ppu.mirroring = "HORIZONTAL" -> table \div 2
                         [] ppu.mirroring = "VERTICAL" -> table % 2
                         [] OTHER -> table
           IN  /\ op'.ret = Cell(ppu.palette_table, index)
               /\ ppu'.internal_data_buffer
                    = Cell(ppu.vram, bank * 1024 + (op'.arg % 1024))]_vars

\* C14: a PPUDATA read or write at any address in 0x3F00-0x3FFF completes and goes
\* to palette cell (address mod 32), with cells 0x10/0x14/0x18/0x1C folded onto
\* 0x00/0x04/0x08/0x0C: the write stores there, the read returns the byte there.
C14_PaletteCells ==
    [][(op'.name \in {"read_data", "write_data"} /\ op'.arg >= PPU_PALETTE_TABLE)
        => LET low == op'.arg % 32
               index == IF low \in {16, 20, 24, 28} THEN low - 16 ELSE low
           IN  /\ ~panicked'
               /\ op'.name = "write_data"
                    => ppu'.palette_table = Store(ppu.palette_table, index, op'.ret)
               /\ op'.name = "read_data"
                    => op'.ret = Cell(ppu.palette_table, index)]_vars

\* C15: under Horizontal mirroring logical tables 0,1 share bank 0 and tables 2,3
\* bank 1; under Vertical tables 0,2 share bank 0 and tables 1,3 bank 1. A PPUDATA
\* write at an address in 0x2000-0x2FFF stores in the cell (bank, address mod 0x400)
\* and in no other, and a read there fills the buffer from that cell: the byte is
\* read back at every address of the same bank and offset and at none of the other.
C15_NametableMirroring ==
    [][(op'.name \in {"read_data", "write_data"}
        /\ ppu.mirroring \in {"HORIZONTAL", "VERTICAL"}
        /\ op'.arg >= PPU_VRAM /\ op'.arg <= PPU_VRAM_1ST_END)
        => LET table == (op'.arg - PPU_VRAM) \div 1024
               bank == IF ppu.mirroring = "HORIZONTAL" THEN table \div 2 ELSE table % 2
               cell == bank * 1024 + (op'.arg % 1024)
           IN  /\ ~panicked'
               /\ op'.name = "write_data" => ppu'.vram = Store(ppu.vram, cell, op'.ret)
               /\ op'.name = "read_data" => ppu'.internal_data_buffer = Cell(ppu.vram, cell)]_vars

\* C15 witness: a read at a nametable address other than the one written has filled
\* the buffer with the written byte, the only byte in nametable RAM.
C15_Witness ==
    /\ op.name = "read_data" /\ ppu.internal_data_buffer = 102
    /\ ppu.mirroring \in {"HORIZONTAL", "VERTICAL"}
    /\ op.arg \in PPU_VRAM..PPU_VRAM_1ST_END
    /\ hist.write_addr \in PPU_VRAM..PPU_VRAM_1ST_END
    /\ op.arg # hist.write_addr
    /\ hist.data_ops = 2

C17_RamMirrors ==
    [][/\ \A a \in {0, 16, 2047} : \A k \in 1..3 :
            memory_read_u8(bus', ppu', a).ret = memory_read_u8(bus', ppu', a + 2048 * k).ret
       /\ (op'.name = "memory_write_u8" /\ op'.arg[1] <= RAM_END)
            => \A k \in 0..3 :
                 memory_read_u8(bus', ppu', (op'.arg[1] % 2048) + 2048 * k).ret = op'.arg[2]]_vars

\* C17 witness: a read of 0x0810 has returned the byte written to RAM cell 0x010
\* through another of its addresses.
C17_Witness ==
    op.name = "memory_read_u8" /\ op.arg = 2064 /\ op.ret = 102

\* C18: a bus write to an address in 0x8000-0xFFFF aborts the run, and after every
\* bus operation PRG-ROM holds the bytes it was loaded with.
C18_RomReadOnly ==
    [][/\ (op'.name = "memory_write_u8" /\ op'.arg[1] >= ROM) => panicked'
       /\ bus'.prg_rom = RomImage]_vars

\* C18 witness: a write to 0xFFFF has aborted the run.
C18_Witness ==
    op.name = "memory_write_u8" /\ op.arg[1] = ROM_END /\ panicked

\* C19: a bus write to the PPU status register (0x2002 or a mirror of it in
\* 0x2008-0x3FFF) does not abort and leaves the PPU as it was.
C19_StatusWriteDiscarded ==
    [][(op'.name = "memory_write_u8" /\ op'.arg[1] >= PPU_REG_CONTROLLER
        /\ op'.arg[1] <= PPU_END /\ op'.arg[1] % 8 = 2)
        => (~panicked' /\ ppu' = ppu)]_vars

\* C20: the strobe is set exactly when the last write of 0x4016 had bit 0 set; while
\* it is set the shift index is 0, and every read returns 1 if button A is pressed
\* and 0 if not and leaves the index 0, however many reads are made in a row.
C20_StrobeReadsA ==
    [][/\ op'.name = "memory_write_u8" => bus'.joypad_1.strobe = (op'.arg[2] % 2 = 1)
       /\ op'.name # "memory_write_u8" => bus'.joypad_1.strobe = bus.joypad_1.strobe
       /\ bus'.joypad_1.strobe => bus'.joypad_1.index = 0
       /\ (op'.name = "memory_read_u8" /\ bus.joypad_1.strobe)
            => op'.ret = (IF Bit(bus.joypad_1.status, BUTTON_A) THEN 1 ELSE 0)]_vars

\* C20 witness: the tenth read in a row under strobe, button A pressed, has
\* returned 1.
C20_Witness ==
    /\ op.name = "memory_read_u8" /\ op.ret = 1
    /\ bus.joypad_1.strobe /\ Bit(bus.joypad_1.status, BUTTON_A)
    /\ bus.joypad_1.index = 0
    /\ hist.pad_reads = 10

\* C21: after a write of 0x4016 with bit 0 set followed by one with bit 0 clear, the
\* k-th read (k = 1..8) returns the pressed state of the k-th button in the order A,
\* B, Select, Start, Up, Down, Left, Right (bit k - 1 of the button byte at the time
\* of the read), and the ninth and every later read returns 1, until the next write
\* with bit 0 set.
C21_ShiftSequence ==
    [][(op'.name = "memory_read_u8" /\ hist.pad_seq >= 0)
        => op'.ret = (IF hist.pad_seq < 8
                      THEN (IF Bit(bus.joypad_1.status, hist.pad_seq) THEN 1 ELSE 0)
                      ELSE 1)]_vars

\* C21 witness: the tenth read after the strobe pulse has returned 1 while RIGHT, the
\* button of the eighth read, is the only one pressed and A is released.
C21_Witness ==
    /\ op.name = "memory_read_u8" /\ op.ret = 1
    /\ hist.pad_seq = 10
    /\ ~bus.joypad_1.strobe
    /\ bus.joypad_1.status = 128

\* C22: at every instruction boundary after reset the status register has Break2
\* set and Break1 clear, whatever byte PLP or RTI popped; the byte PHP pushes is the
\* status with both break bits set, and PHP leaves the register as it was.
C22_BreakBits ==
    /\ [](Bit(cpu.status, CpuFlags.BREAK2) /\ ~Bit(cpu.status, CpuFlags.BREAK1))
    /\ [][(op'.name = "run_step" /\ op'.arg = 8 /\ ~panicked')
            => /\ Cell(bus'.cpu_vram, STACK_BASE + cpu.reg_sp) = BitOr(cpu.status, 48)
               /\ cpu'.status = cpu.status]_vars

\* C22 witness: PLP has popped 0xFF: every flag is set but Break1.
C22_Witness ==
    /\ op.name = "run_step" /\ op.arg = 40
    /\ ~panicked
    /\ cpu.status = 239

\* C23: a PLA that follows a PHA with no stack traffic in between, whatever A became
\* in between, leaves A equal to the value pushed, SP equal to its value before the
\* PHA (also when SP wrapped from 0x00 to 0xFF), and Zero/Negative set from that
\* value.
C23_PhaPlaRoundTrip ==
    [][(op'.name = "run_step" /\ op'.arg = 104 /\ hist.pha # <<>> /\ ~panicked')
        => /\ cpu'.reg_a = hist.pha[1]
           /\ cpu'.reg_sp = hist.pha[2]
           /\ Bit(cpu'.status, CpuFlags.ZERO) = (hist.pha[1] = 0)
           /\ Bit(cpu'.status, CpuFlags.NEGATIVE) = (hist.pha[1] >= 128)]_vars

\* C23 witness: 0x80 was pushed with SP = 0x00 (SP wrapped to 0xFF), A was loaded
\* with 0x55, and PLA has put 0x80 back in A and 0x00 in SP.
C23_Witness ==
    /\ op.name = "run_step" /\ op.arg = 104
    /\ ~panicked
    /\ cpu.reg_a = 128 /\ cpu.reg_sp = 0
    /\ Bit(cpu.status, CpuFlags.NEGATIVE) /\ ~Bit(cpu.status, CpuFlags.ZERO)
    /\ Cell(bus.cpu_vram, STACK_BASE) = 128
    /\ hist.fetches = 6

\* C24: for every A, operand and Carry, ADC leaves A = (A + mem + Carry) mod 256,
\* Carry set exactly when A + mem + Carry > 255, Overflow set exactly when the sum of
\* A and mem as signed bytes plus Carry lies outside -128..127, and Zero and Negative
\* computed from the new A.
C24_AdcResult ==
    [][op'.name = "adc" =>
        LET carry == IF Bit(cpu.status, 0) THEN 1 ELSE 0
            sum == cpu.reg_a + op'.arg + carry
            signed == AsI8(cpu.reg_a) + AsI8(op'.arg) + carry
        IN /\ cpu'.reg_a = sum % 256
           /\ Bit(cpu'.status, 0) = (sum > 255)
           /\ Bit(cpu'.status, 6) = (signed < -128 \/ signed > 127)
           /\ Bit(cpu'.status, 1) = (cpu'.reg_a = 0)
           /\ Bit(cpu'.status, 7) = (cpu'.reg_a >= 128)]_vars

\* C24 witness: 0x80 + 0x80 has been added: A = 0 with Carry, Overflow and Zero set.
C24_Witness ==
    /\ op.name = "adc" /\ op.arg = 128
    /\ cpu.reg_a = 0
    /\ Bit(cpu.status, 0) /\ Bit(cpu.status, 6) /\ Bit(cpu.status, 1)

C26_BranchTarget ==
    [][(op'.name = "run_step" /\ op'.arg \in BranchCodes /\ ~panicked')
        => LET a == op'.ret.pc
               d == AsI8(Cell(bus.prg_rom, RomIndex(a + 1)))
               flag == CASE op'.arg \in {16, 48} -> Bit(cpu.status, CpuFlags.NEGATIVE)
                         [] op'.arg \in {80, 112} -> Bit(cpu.status, CpuFlags.OVERFLOW)
                         [] op'.arg \in {144, 176} -> Bit(cpu.status, CpuFlags.CARRY)
                         [] op'.arg \in {208, 240} -> Bit(cpu.status, CpuFlags.ZERO)
               taken == flag = (op'.arg \in {48, 112, 176, 240})
           IN cpu'.reg_pc = IF taken THEN Wrap16(a + 2 + d) ELSE a + 2]_vars

\* C27: after JMP absolute, JMP indirect or JSR the PC is exactly the target address
\* read from memory (the word after the opcode, and for JMP indirect the word that
\* word points to), whatever the target and the address of the instruction.
C27_JumpTarget ==
    [][(op'.name = "run_step" /\ op'.arg \in {76, 108, 32} /\ ~panicked')
        => LET a == op'.ret.pc
               Word(x) == Cell(bus.prg_rom, RomIndex(x))
                          + 256 * Cell(bus.prg_rom, RomIndex(x + 1))
           IN cpu'.reg_pc = IF op'.arg = 108 THEN Word(Word(a + 1)) ELSE Word(a + 1)]_vars

C29_PcPastOperand ==
    [][(op'.name = "run_step" /\ op'.arg \in OpcodeBytes /\ ~panicked'
        /\ op'.arg \notin BranchCodes \cup {0, 76, 108, 32, 96, 64})
        => LET mode == OpCode(op'.arg).mode
               operand == CASE mode = "NonAddressing" -> 0
                            [] mode \in {"Absolute", "Absolute_X", "Absolute_Y"} -> 2
                            [] OTHER -> 1
           IN cpu'.reg_pc = op'.ret.pc + 1 + operand]_vars

\* C30: every opcode byte the match of the run loop has an arm for has a descriptor
\* in the opcode table: fetching it never fails as an unknown opcode, and LAX
\* zero-page (0xA7) leaves A = X = the byte at the operand address.
C30_DispatchedOpcodesKnown ==
    [][(op'.name = "run_step" /\ op'.arg \in DispatchBytes)
        => /\ ~op'.ret.unknown
           /\ op'.arg = 167
                => LET v == Cell(bus.cpu_vram,
                                 Cell(bus.prg_rom, RomIndex(op'.ret.pc + 1)))
                   IN ~panicked' /\ cpu'.reg_a = v /\ cpu'.reg_x = v]_vars

----------------------------------------------------------------------------
(* C31: CPU::run returns at the step that fetches BRK (0x00), with A, X, Y, *)
(* SP, the status register and CPU RAM as they were before the fetch; it    *)
(* returns at no other step, and once it has returned no further           *)
(* instruction is executed.                                                 *)
C31_BrkReturns ==
    [][ /\ run_state = "running"
        /\ op'.name = "run_step"
        /\ (op'.arg = 0 /\ ~panicked') =>
              /\ run_state' = "returned"
              /\ cpu'.reg_a = cpu.reg_a /\ cpu'.reg_x = cpu.reg_x
              /\ cpu'.reg_y = cpu.reg_y /\ cpu'.reg_sp = cpu.reg_sp
              /\ cpu'.status = cpu.status
              /\ bus'.cpu_vram = bus.cpu_vram
        /\ run_state' = "returned" => (op'.arg = 0 /\ ~panicked') ]_vars

\* C31 witness: LDA #$C0; TAX; INX; BRK has returned at its fourth fetch with
\* A = 0xC0 and X = 0xC1.
C31_Witness ==
    /\ run_state = "returned"
    /\ op.name = "run_step" /\ op.arg = 0 /\ op.ret.pc = 32772
    /\ hist.fetches = 4
    /\ cpu.reg_a = 192 /\ cpu.reg_x = 193

----------------------------------------------------------------------------
\* The buffer holds the four tag bytes at its start.
HasTag(raw) ==
    /\ raw.len >= Len(NES_TAG)
    /\ \A i \in 1..Len(NES_TAG) : Cell(raw.mem, i - 1) = NES_TAG[i]

\* Two Vecs hold the same bytes.
SameBytes(v, w) ==
    /\ v.len = w.len
    /\ \A i \in (DOMAIN v.mem) \cup (DOMAIN w.mem) : Cell(v.mem, i) = Cell(w.mem, i)

(* C32: Rom::new returns a cartridge or an error for every buffer: no call  *)
(* of it panics, whatever the length of the buffer and its header bytes.   *)
C32_ParserNeverAborts ==
    op.name = "Rom_new" => (~op.ret.panic /\ ~panicked)

(* C33: Rom::new returns the error "not iNES format" for every buffer that  *)
(* does not start with the four tag bytes, and the error "not iNES 1.0" for *)
(* every buffer that starts with them and has bit 2 or 3 of byte 7 set; it  *)
(* returns no cartridge for either.                                         *)
C33_FormatAndVersionErrors ==
    op.name = "Rom_new" =>
        LET raw == op.arg.raw IN
        /\ ~HasTag(raw) => op.ret = Rom_err("not iNES format")
        /\ ( /\ HasTag(raw)
             /\ raw.len > NES_CONTROL_BYTE2
             /\ BitAnd(Cell(raw.mem, NES_CONTROL_BYTE2), 12) # 0 )
           => op.ret = Rom_err("not iNES 1.0")

(* C34: every cartridge Rom::new returns has 16 KiB or 32 KiB of PRG and at *)
(* least 8 KiB of CHR.                                                      *)
C34_CartridgeInvariants ==
    (op.name = "Rom_new" /\ op.ret.ok) =>
        /\ op.ret.rom[1].prg_rom.len \in {16384, 32768}
        /\ op.ret.rom[1].chr_rom.len >= 8192

(* C35: Rom::new on the iNES 1.0 stream of a cartridge, with or without a   *)
(* trainer and with either vertical bit when the cartridge is four-screen,  *)
(* returns the PRG bytes, CHR bytes, mirroring and mapper id of the        *)
(* cartridge.                                                               *)
C35_ParseOfEncode ==
    (op.name = "Rom_new" /\ is_some(op.arg.cart)) =>
        /\ op.ret.ok
        /\ SameBytes(op.ret.rom[1].prg_rom, op.arg.cart[1].prg_rom)
        /\ SameBytes(op.ret.rom[1].chr_rom, op.arg.cart[1].chr_rom)
        /\ op.ret.rom[1].mapper = op.arg.cart[1].mapper
        /\ op.ret.rom[1].screen_mirroring = op.arg.cart[1].screen_mirroring

\* C35 witness: a stream with a trainer, the four-screen and the vertical bit set
\* and mapper 0x4F has been parsed into two PRG banks and one CHR bank with their
\* marked bytes in place, FOUR_SCREEN and mapper 0x4F.
C35_Witness ==
    /\ op.name = "Rom_new" /\ is_some(op.arg.cart) /\ op.ret.ok
    /\ Cell(op.arg.raw.mem, NES_CONTROL_BYTE1) = 253
    /\ Cell(op.arg.raw.mem, NES_CONTROL_BYTE2) = 64
    /\ Cell(op.arg.raw.mem, 16) = 7
    /\ op.ret.rom[1].prg_rom.len = 32768
    /\ Cell(op.ret.rom[1].prg_rom.mem, 0) = 169
    /\ Cell(op.ret.rom[1].prg_rom.mem, 32767) = 96
    /\ op.ret.rom[1].chr_rom.len = 8192
    /\ Cell(op.ret.rom[1].chr_rom.mem, 0) = 2
    /\ Cell(op.ret.rom[1].chr_rom.mem, 8191) = 3
    /\ op.ret.rom[1].mapper = 79
    /\ op.ret.rom[1].screen_mirroring = "FOUR_SCREEN"

----------------------------------------------------------------------------
(* C36: for every opcode byte of the table, the mnemonic of the trace line  *)
(* produced at an instruction is the name of the instruction the dispatch   *)
(* of run_with_callback carries out for that byte.                          *)
C36_TraceMnemonic ==
    (op.name = "trace" /\ ~op.ret.traced.panic) =>
        op.ret.line.mnemonic = HandlerInstruction[ArmHandler(op.arg)]

(* C39: a call of trace that returns leaves the bus, the PPU and the        *)
(* gamepad as they were, and the machine run with trace as the callback is *)
(* after every instruction in the state of the machine run without it      *)
(* (both aborted, or neither and CPU, bus, PPU and gamepad equal and both   *)
(* returned or both running), also when the operand address of the traced  *)
(* instruction is a device register.                                        *)
C39_TraceLeavesState ==
    [][ op'.name = "trace" =>
          /\ ~op'.ret.traced.panic =>
                (op'.ret.traced.bus = bus /\ op'.ret.traced.ppu = ppu)
          /\ \E m \in {hist'.plain[1]} :
                \/ m.panic /\ panicked'
                \/ /\ ~m.panic /\ ~panicked'
                   /\ m.cpu = cpu' /\ m.bus = bus' /\ m.ppu = ppu'
                   /\ m.returned = (run_state' = "returned") ]_vars

----------------------------------------------------------------------------
(* C37: under every mirroring mode, FOUR_SCREEN included, a PPUDATA read or *)
(* write at an address in 0x2000-0x2FFF uses an index of nametable RAM in   *)
(* 0 .. 2047 and does not abort.                                            *)
C37_NametableIndexInRange ==
    (op.name \in {"read_data", "write_data"} /\ op.arg >= PPU_VRAM
        /\ op.arg <= PPU_VRAM_1ST_END) =>
        /\ mirror_vram_address(ppu.mirroring, op.arg) \in 0..(VramLen - 1)
        /\ ~panicked

----------------------------------------------------------------------------
(* C38: a write of any page V to 0x4014 does not abort and changes nothing  *)
(* but the contents of OAM: the OAM address, CPU RAM, the PPU address and   *)
(* its latch toggle, the read buffer, the status register and the gamepad  *)
(* index are after the write what they were before it, also for a source   *)
(* page in the PPU register range or the I/O page.                         *)
C38_DmaChangesOnlyOam ==
    [][ (op'.name = "memory_write_u8" /\ op'.arg[1] = PPU_REG_OAM_DMA) =>
          /\ ~panicked'
          /\ bus' = bus
          /\ [ppu' EXCEPT !.oam_data = ppu.oam_data] = ppu ]_vars

----------------------------------------------------------------------------
\* The indices of Frame.data whose byte differs between two frames.
ChangedBytes(f, g) ==
    { i \in (DOMAIN f.mem) \cup (DOMAIN g.mem) : Cell(f.mem, i) # Cell(g.mem, i) }

\* The three indices of pixel (x, y) in Frame.data.
PixelBytes(x, y) == { (y * Frame_WIDTH + x) * 3 + k : k \in 0..2 }

(* C40: Frame::set_pixel(x, y, rgb) leaves every byte of the frame as it    *)
(* was except the three bytes of pixel (x, y), which hold rgb after the     *)
(* call, when x < 256 and y < 240, and leaves every byte as it was          *)
(* otherwise; the pixels of a sprite change no byte of a pixel outside the  *)
(* columns tx .. tx + 7 and the rows ty .. ty + 7.                          *)
C40_SetPixelInFrame ==
    [][ /\ op'.name = "set_pixel" =>
            \E x \in {op'.arg[1]}, y \in {op'.arg[2]}, rgb \in {op'.arg[3]} :
              IF x < Frame_WIDTH /\ y < Frame_HEIGHT
              THEN /\ ChangedBytes(op.ret, op'.ret) \subseteq PixelBytes(x, y)
                   /\ \A k \in 0..2 :
                        Cell(op'.ret.mem, (y * Frame_WIDTH + x) * 3 + k) = rgb[k + 1]
              ELSE ChangedBytes(op.ret, op'.ret) = {}
        /\ op'.name = "draw_sprite" =>
            \A i \in ChangedBytes(op.ret, op'.ret) :
              /\ (i \div 3) % Frame_WIDTH \in op'.arg.tx..(op'.arg.tx + 7)
              /\ (i \div 3) \div Frame_WIDTH \in op'.arg.ty..(op'.arg.ty + 7) ]_vars

====
